---- MODULE Spec2Model ----
(***************************************************************************)
(* State-machine model of the python_livestream pipeline:                  *)
(*   - livestream/capture.py   WebCapture (load_page, start_capture)       *)
(*   - livestream/streamer.py  YouTubeStreamer (start, write_frame,        *)
(*                             cleanup) and the ffmpeg process it feeds    *)
(*   - stream_url.py           stream_segment, run_livestream              *)
(*   - scheduler.py            AudioScheduler (playlist, jobs,             *)
(*                             start_stream)                               *)
(*   - livestream/overlay.py   StreamOverlay.get_current_text              *)
(*   - main.py                 configuration checks and startup            *)
(* The specifications of the module: Spec (capture pipeline), SpecLive     *)
(* (segment scheduler), SpecScheduler (playlist streamer), SpecOrdering    *)
(* (both pipelines), SpecLogging (stream-key logging), SpecPacing (frame   *)
(* pacing), SpecOverlay (overlay rotation), SpecStartup (startup checks),  *)
(* SpecStreamer (write_frame callers) and SpecPlaylist (playlist updates). *)
(***************************************************************************)
EXTENDS Integers, Sequences, FiniteSets, TLC

(***************************************************************************)
(* Bounds of the model.                                                    *)
(***************************************************************************)
\* frames the capture loop may hand to the streamer
MaxFrames == 2
\* screenshot timeouts the renderer may produce in one run
MaxTimeouts == 7
\* largest max_retries argument of a direct load_page(max_retries) call
MaxRetriesArg == 4
\* iterations of run_livestream's "while True" loop
MaxCycles == 2
\* threads that call AudioScheduler.start_stream
MaxCallers == 2
\* start_stream calls in one run
MaxCalls == 4
\* small durations and slot lengths (seconds) tried beside the scenarios
MaxSmall == 2
\* length of the short stream keys tried
MaxKeyLen == 2
\* ticks in one frame interval (self.delay)
Delay == 4
\* frames the paced loop writes
MaxPaced == 6
\* ticks by which time.sleep may return late
MaxOvershoot == 1
\* length of the custom message lists tried
MaxMessages == 2
\* get_current_text calls in one run
MaxOverlayCalls == 4
\* seconds the overlay's clock may advance in one run
MaxElapsed == 540
\* time.time() when the overlay is constructed (any value past 180)
OverlayStart == 1000
\* seconds that may pass in one cycle before its segment starts
MaxOverhead == 2
\* generate_and_update runs the scheduler fires
MaxRuns == 3
\* write_frame calls a direct caller makes
MaxWrites == 4

(***************************************************************************)
(* Program constants.                                                      *)
(***************************************************************************)
\* load_page(self, max_retries=3)
DefaultMaxRetries == 3
\* if consecutive_errors >= 3
ErrorThreshold == 3
\* main.py: len(stream_key) < 10
MinKeyLen == 10
\* overlay.py: if current_time - self.last_update >= 180
RotationInterval == 180

VARIABLES
    \* ---- WebCapture (livestream/capture.py)
    entry,              \* the call this run makes: start_capture or load_page
    cpc,                \* position of the calling thread in start_capture
    max_retries,        \* load_page's argument
    attempt,            \* load_page's loop variable
    attempts_made,      \* page.goto calls of the running load_page call
    lp_result,          \* load_page's return value: "none", "true", "false"
    consecutive_errors, \* start_capture's local
    frame_count,        \* start_capture's local
    reloads,            \* load_page calls made from the capture loop
    timeouts,           \* screenshot timeouts so far
    browser,            \* self.browser: "none", "open", "closed"
    playwright,         \* self.playwright: "none", "started", "stopped"
    cexc,               \* exception that ended start_capture's try block
    cleanups,           \* calls of WebCapture.cleanup
    timeout_run,        \* screenshot timeouts since the last good screenshot
    shot,               \* number of the screenshot last captured (0: none)
    \* ---- YouTubeStreamer (livestream/streamer.py) and its ffmpeg process
    proc,               \* self.process: "none", "running", "exited"
    pipe,               \* ffmpeg's end of the stdin pipe: "none", "open", "closed"
    stdin,              \* self.process.stdin: "none", "open", "closed"
    pending,            \* BufferedWriter holds a frame it could not flush
    wf_pc,              \* position inside write_frame
    wf_exc,             \* exception write_frame raised
    written,            \* frames flushed into the pipe
    spawned,            \* ffmpeg processes started by start()
    scl_pc,             \* position inside YouTubeStreamer.cleanup
    scl_exc,            \* exception caught by cleanup's except clause
    sink,               \* the frames flushed into the pipe, in order
    \* ---- run_livestream and stream_segment (stream_url.py)
    lentry,             \* the call this run makes: run_livestream or stream_segment
    config,             \* what the environment provides: "ok", "no_key", ...
    interval_seconds,   \* interval_minutes * 60
    rl_pc,              \* position of the coroutine in run_livestream
    rl_exc,             \* exception that left run_livestream or stream_segment
    cycle,              \* iterations of "while True" begun
    task_state,         \* executor tasks in submission order: "running", "ok", "failed"
    awaits,             \* how often each task has been awaited
    future,             \* the task the local "future" refers to (0: none)
    tts_audio_path,     \* the narration file handed to stream_segment (0: none)
    files,              \* narration files that exist on disk
    lbrowser,           \* Playwright browser of run_livestream
    news_for,           \* task the text generation running on the loop is for
    gen_failed,         \* narration generation has raised
    linterrupted,       \* the operator has interrupted the run
    env_failed,         \* browser launch, duration probe or Popen has raised
    seg_pc,             \* position inside stream_segment
    available_time,     \* stream_segment's argument
    segment_duration,   \* stream_segment's locals
    filler_duration,
    total_duration,
    enc_t,              \* the -t argument ffmpeg was started with (-1: none)
    seg_proc,           \* the segment's ffmpeg process
    cap_pc,             \* position of the _capture_frames task
    cancel_requested,   \* capture_task.cancel() reached a task not yet done
    seg_result,         \* stream_segment's return value (-1: none)
    segments_done,      \* stream_segment calls that returned normally
    streamed,           \* the narration files handed to stream_segment, in order
    cancelled,          \* tasks whose future was cancelled at "await future"
    overhead,           \* seconds spent in this cycle before its segment starts
    \* ---- AudioScheduler.start_stream (scheduler.py)
    st_pc,              \* position of each caller inside start_stream
    ffmpeg_process,     \* self.ffmpeg_process: index into sprocs (0: None)
    sprocs,             \* the ffmpeg processes spawned: "running", "exited"
    st_calls,           \* start_stream calls made
    st_skipped,         \* calls that returned at the guard
    \* ---- what the programs log and print about the stream key
    lg_entry,           \* the program or call that runs
    lg_pc,              \* its position
    stream_key,         \* YOUTUBE_STREAM_KEY, a sequence of characters
    log,                \* the lines logged or printed, in order
    \* ---- the pacing of WebCapture.start_capture's loop (capture.py)
    pace_pc,            \* position in the loop body
    clock,              \* time.time(), in ticks
    last_frame_time,    \* start_capture's locals
    current_time,
    sleep_time,
    work,               \* ticks the screenshot, overlay and write just took
    paced,              \* frames written
    first_frame_at,     \* current_time of the first frame
    \* ---- StreamOverlay (livestream/overlay.py)
    messages,           \* self.messages
    current_index,      \* self.current_index, 0-based
    last_update,        \* self.last_update
    ov_clock,           \* time.time(), in seconds
    ov_text,            \* argument of the last get_current_text call
    ov_result,          \* what it returned
    ov_calls,           \* get_current_text calls made
    ov_called_at,       \* ov_clock at the last call
    \* ---- start-up of main.main and of scheduler.py's main block
    su_entry,           \* the program that runs: "main" or "scheduler"
    su_pc,              \* its position
    key_state,          \* YOUTUBE_STREAM_KEY: "missing", "short", "valid"
    has_image,          \* screenshot.png exists
    has_music,          \* audio/song.mp3 exists
    su_job,             \* the scheduled generate_and_update: "none", "due", "ran"
    provider_calls,     \* calls of generate_news_content / generate_tts_audio
    ext_procs,          \* external processes started
    \* ---- AudioScheduler's playlist (scheduler.py)
    pl_pc,              \* position in __init__ / generate_and_update
    playlist,           \* entries of the playlist file (0: background music)
    temp_exists,        \* playlist.tmp exists
    temp,               \* its entries
    runs,               \* generate_and_update runs begun
    mixed,              \* runs whose segment was generated and mixed, in order
    failed,             \* runs in which a step raised
    job_errors,         \* "Scheduled segment generation failed" lines logged
    observed            \* what a reader of the playlist file last read

captureVars == <<entry, cpc, max_retries, attempt, attempts_made, lp_result,
                 consecutive_errors, frame_count, reloads, timeouts,
                 browser, playwright, cexc, cleanups, timeout_run, shot>>
streamerVars == <<proc, pipe, stdin, pending, wf_pc, wf_exc, written, spawned,
                  scl_pc, scl_exc, sink>>
segVars == <<seg_pc, available_time, segment_duration, filler_duration,
             total_duration, enc_t, seg_proc, cap_pc, cancel_requested,
             seg_result, segments_done>>
loopVars == <<lentry, config, interval_seconds, rl_pc, rl_exc, cycle,
              task_state, awaits, future, tts_audio_path, files, lbrowser,
              news_for, gen_failed, linterrupted, env_failed, streamed,
              cancelled, overhead>>
liveVars == <<loopVars, segVars>>
cfgVars == <<lentry, config, interval_seconds>>
taskVars == <<task_state, awaits, future>>
flagVars == <<gen_failed, linterrupted, env_failed>>
segLocals == <<available_time, segment_duration, filler_duration,
               total_duration, seg_result>>
schedVars == <<st_pc, ffmpeg_process, sprocs, st_calls, st_skipped>>
logVars == <<lg_entry, lg_pc, stream_key, log>>
pacingVars == <<pace_pc, clock, last_frame_time, current_time, sleep_time,
                work, paced, first_frame_at>>
overlayVars == <<messages, current_index, last_update, ov_clock, ov_text,
                 ov_result, ov_calls, ov_called_at>>
startupVars == <<su_entry, su_pc, key_state, has_image, has_music, su_job,
                 provider_calls, ext_procs>>
playlistVars == <<pl_pc, playlist, temp_exists, temp, runs, mixed, failed,
                  job_errors, observed>>
extraVars == <<startupVars, playlistVars>>
auxVars == <<logVars, pacingVars, overlayVars, extraVars>>
vars == <<captureVars, streamerVars, liveVars, schedVars, auxVars>>
nonCaptureVars == <<liveVars, schedVars, auxVars>>
nonLiveVars == <<captureVars, streamerVars, schedVars, auxVars>>
nonSchedVars == <<captureVars, streamerVars, liveVars, auxVars>>
pipelineVars == <<captureVars, streamerVars, liveVars, schedVars>>
nonLogVars == <<pipelineVars, pacingVars, overlayVars, extraVars>>
nonPacingVars == <<pipelineVars, logVars, overlayVars, extraVars>>
nonOverlayVars == <<pipelineVars, logVars, pacingVars, extraVars>>
baseVars == <<pipelineVars, logVars, pacingVars, overlayVars>>
nonStartupVars == <<baseVars, playlistVars>>
nonPlaylistVars == <<captureVars, streamerVars, liveVars, logVars, pacingVars,
                     overlayVars, startupVars>>

(***************************************************************************)
(* WebCapture.load_page                                                    *)
(***************************************************************************)
\* what one pass of the for-loop body can do: return True, or fail by
\* "no response", a non-OK status, a Playwright timeout or another error
LoadOutcomes == {"ok", "no_response", "http_error", "timeout", "error"}

\* a loop bound off by one: range(max_retries + 1)
LoadPageContinuesOneMore(a, m) == a <= m

\* for attempt in range(max_retries)
LoadPageContinues(a, m) == a < m

InLoadPage == cpc \in {"load", "reload", "direct"} /\ lp_result = "none"

\* one pass of the loop body: page.goto and what follows it
LoadPageAttempt(outcome) ==
    /\ InLoadPage
    /\ LoadPageContinues(attempt, max_retries)
    /\ attempts_made' = attempts_made + 1
    /\ IF outcome = "ok"
         THEN /\ lp_result' = "true"
              /\ UNCHANGED attempt
         ELSE /\ attempt' = attempt + 1
              /\ UNCHANGED lp_result
    /\ UNCHANGED <<entry, cpc, max_retries, consecutive_errors, frame_count,
                   reloads, timeouts, browser, playwright, cexc, cleanups,
                   timeout_run>>
    /\ UNCHANGED streamerVars
    /\ UNCHANGED shot
    /\ UNCHANGED nonCaptureVars

\* the loop ran out: return False
LoadPageExhausted ==
    /\ InLoadPage
    /\ ~LoadPageContinues(attempt, max_retries)
    /\ lp_result' = "false"
    /\ UNCHANGED <<entry, cpc, max_retries, attempt, attempts_made,
                   consecutive_errors, frame_count, reloads, timeouts,
                   browser, playwright, cexc, cleanups, timeout_run>>
    /\ UNCHANGED streamerVars
    /\ UNCHANGED shot
    /\ UNCHANGED nonCaptureVars

(***************************************************************************)
(* The ffmpeg process started by YouTubeStreamer.start: it may stop        *)
(* reading its input, and it may exit, at any moment.                      *)
(***************************************************************************)
EncoderClosesInput ==
    /\ proc = "running"
    /\ pipe = "open"
    /\ pipe' = "closed"
    /\ UNCHANGED <<proc, stdin, pending, wf_pc, wf_exc, written, spawned,
                   scl_pc, scl_exc>>
    /\ UNCHANGED captureVars
    /\ UNCHANGED sink
    /\ UNCHANGED nonCaptureVars

EncoderExits ==
    /\ proc = "running"
    /\ proc' = "exited"
    /\ pipe' = "closed"
    /\ UNCHANGED <<stdin, pending, wf_pc, wf_exc, written, spawned,
                   scl_pc, scl_exc>>
    /\ UNCHANGED captureVars
    /\ UNCHANGED sink
    /\ UNCHANGED nonCaptureVars

(***************************************************************************)
(* YouTubeStreamer.write_frame                                             *)
(***************************************************************************)
\* subprocess.Popen either starts ffmpeg or raises (no executable)
StartOutcomes == {"ok", "fail"}

\* if not self.process: self.start()
WfStartProcess(outcome) ==
    /\ wf_pc = "check"
    /\ proc = "none"
    /\ IF outcome = "ok"
         THEN /\ proc' = "running"
              /\ pipe' = "open"
              /\ stdin' = "open"
              /\ spawned' = spawned + 1
              /\ wf_pc' = "write"
              /\ UNCHANGED wf_exc
         ELSE /\ wf_pc' = "raised"
              /\ wf_exc' = "OSError"
              /\ UNCHANGED <<proc, pipe, stdin, spawned>>
    /\ UNCHANGED <<pending, written, scl_pc, scl_exc>>
    /\ UNCHANGED captureVars
    /\ UNCHANGED sink
    /\ UNCHANGED nonCaptureVars

\* a caller other than start_capture calls write_frame(frame_data), one
\* call after the other, whatever the earlier calls did
WfCall ==
    /\ entry = "write_frame"
    /\ wf_pc \in {"idle", "returned", "raised"}
    /\ shot < MaxWrites
    /\ shot' = shot + 1
    /\ wf_pc' = "check"
    /\ wf_exc' = "none"
    /\ UNCHANGED <<entry, cpc, max_retries, attempt, attempts_made, lp_result,
                   consecutive_errors, frame_count, reloads, timeouts,
                   browser, playwright, cexc, cleanups, timeout_run>>
    /\ UNCHANGED <<proc, pipe, stdin, pending, written, spawned, scl_pc,
                   scl_exc, sink>>
    /\ UNCHANGED nonCaptureVars

\* a write_frame that starts a new encoder when the old one has exited
WfRestartIfExited ==
    /\ wf_pc = "check"
    /\ proc # "none"
    /\ wf_pc' = "write"
    /\ IF proc = "exited"
         THEN /\ proc' = "running"
              /\ pipe' = "open"
              /\ stdin' = "open"
              /\ pending' = FALSE
              /\ spawned' = spawned + 1
         ELSE UNCHANGED <<proc, pipe, stdin, pending, spawned>>
    /\ UNCHANGED <<wf_exc, written, scl_pc, scl_exc>>
    /\ UNCHANGED captureVars
    /\ UNCHANGED sink
    /\ UNCHANGED nonCaptureVars

\* a process handle exists: start() is not called
WfSkipStart ==
    /\ wf_pc = "check"
    /\ proc # "none"
    /\ wf_pc' = "write"
    /\ UNCHANGED <<proc, pipe, stdin, pending, wf_exc, written, spawned,
                   scl_pc, scl_exc>>
    /\ UNCHANGED captureVars
    /\ UNCHANGED sink
    /\ UNCHANGED nonCaptureVars

\* self.process.stdin.write(frame_data); self.process.stdin.flush()
WfWrite ==
    /\ wf_pc = "write"
    /\ IF stdin = "closed"
         THEN /\ wf_pc' = "raised"
              /\ wf_exc' = "ValueError"
              /\ UNCHANGED <<pending, written, sink>>
         ELSE IF pipe = "open"
                THEN /\ written' = written + 1
                     /\ sink' = Append(sink, shot)
                     /\ wf_pc' = "poll"
                     /\ UNCHANGED <<pending, wf_exc>>
                ELSE \* flush fails with EPIPE: the frame stays buffered
                     /\ pending' = TRUE
                     /\ wf_pc' = "read_err"
                     /\ UNCHANGED <<written, wf_exc, sink>>
    /\ UNCHANGED <<proc, pipe, stdin, spawned, scl_pc, scl_exc>>
    /\ UNCHANGED captureVars
    /\ UNCHANGED nonCaptureVars

\* except BrokenPipeError: self.process.stderr.read() returns at end of
\* file, that is once ffmpeg has exited; then raise
WfReadErr ==
    /\ wf_pc = "read_err"
    /\ proc = "exited"
    /\ wf_pc' = "raised"
    /\ wf_exc' = "BrokenPipeError"
    /\ UNCHANGED <<proc, pipe, stdin, pending, written, spawned, scl_pc, scl_exc>>
    /\ UNCHANGED captureVars
    /\ UNCHANGED sink
    /\ UNCHANGED nonCaptureVars

\* write_frame without the liveness check after the write
WfPollNoCheck ==
    /\ wf_pc = "poll"
    /\ wf_pc' = "returned"
    /\ UNCHANGED <<proc, pipe, stdin, pending, wf_exc, written, spawned,
                   scl_pc, scl_exc>>
    /\ UNCHANGED captureVars
    /\ UNCHANGED sink
    /\ UNCHANGED nonCaptureVars

\* if self.process.poll() is not None: raise RuntimeError
WfPoll ==
    /\ wf_pc = "poll"
    /\ IF proc = "exited"
         THEN /\ wf_pc' = "raised"
              /\ wf_exc' = "RuntimeError"
         ELSE /\ wf_pc' = "returned"
              /\ UNCHANGED wf_exc
    /\ UNCHANGED <<proc, pipe, stdin, pending, written, spawned, scl_pc, scl_exc>>
    /\ UNCHANGED captureVars
    /\ UNCHANGED sink
    /\ UNCHANGED nonCaptureVars

(***************************************************************************)
(* YouTubeStreamer.cleanup, called by the owner of the streamer once       *)
(* start_capture has returned.                                             *)
(***************************************************************************)
SclCall ==
    /\ entry = "start_capture"
    /\ cpc \in {"returned", "raised"}
    /\ scl_pc = "idle"
    /\ scl_pc' = IF proc = "none" THEN "returned" ELSE "close_stdin"
    /\ UNCHANGED <<proc, pipe, stdin, pending, wf_pc, wf_exc, written, spawned,
                   scl_exc>>
    /\ UNCHANGED captureVars
    /\ UNCHANGED sink
    /\ UNCHANGED nonCaptureVars

\* self.process.stdin.close(): flushes what is buffered, closes the pipe
SclCloseStdin ==
    /\ scl_pc = "close_stdin"
    /\ stdin' = "closed"
    /\ IF pending /\ pipe = "closed"
         THEN /\ scl_exc' = "BrokenPipeError"
              /\ scl_pc' = "returned"
         ELSE /\ scl_pc' = "read_stderr"
              /\ UNCHANGED scl_exc
    /\ UNCHANGED <<proc, pipe, pending, wf_pc, wf_exc, written, spawned>>
    /\ UNCHANGED captureVars
    /\ UNCHANGED sink
    /\ UNCHANGED nonCaptureVars

\* self.process.stderr.read().decode(): returns at end of file
ReadOutcomes == {"ok", "decode_error"}

SclReadStderr(outcome) ==
    /\ scl_pc = "read_stderr"
    /\ proc = "exited"
    /\ IF outcome = "ok"
         THEN /\ scl_pc' = "terminate"
              /\ UNCHANGED scl_exc
         ELSE /\ scl_exc' = "UnicodeDecodeError"
              /\ scl_pc' = "returned"
    /\ UNCHANGED <<proc, pipe, stdin, pending, wf_pc, wf_exc, written, spawned>>
    /\ UNCHANGED captureVars
    /\ UNCHANGED sink
    /\ UNCHANGED nonCaptureVars

\* self.process.terminate(); self.process.wait(timeout=5)
TerminateOutcomes(p) == IF p = "running" THEN {"exited", "timeout"} ELSE {"exited"}

SclTerminateWait(outcome) ==
    /\ scl_pc = "terminate"
    /\ outcome \in TerminateOutcomes(proc)
    /\ IF outcome = "exited"
         THEN /\ proc' = IF proc = "none" THEN "none" ELSE "exited"
              /\ pipe' = IF pipe = "none" THEN "none" ELSE "closed"
              /\ UNCHANGED scl_exc
         ELSE /\ scl_exc' = "TimeoutExpired"
              /\ UNCHANGED <<proc, pipe>>
    /\ scl_pc' = "returned"
    /\ UNCHANGED <<stdin, pending, wf_pc, wf_exc, written, spawned>>
    /\ UNCHANGED captureVars
    /\ UNCHANGED sink
    /\ UNCHANGED nonCaptureVars

(***************************************************************************)
(* WebCapture.start_capture                                                *)
(***************************************************************************)
SetupOutcomes == {"ok", "launch_failed"}

\* self.page = self.setup_browser(), before the try block
SetupBrowser(outcome) ==
    /\ cpc = "setup"
    /\ playwright' = "started"
    /\ IF outcome = "ok"
         THEN /\ browser' = "open"
              /\ cpc' = "load"
              /\ UNCHANGED cexc
         ELSE /\ cpc' = "raised"
              /\ cexc' = "SetupError"
              /\ UNCHANGED browser
    /\ UNCHANGED <<entry, max_retries, attempt, attempts_made, lp_result,
                   consecutive_errors, frame_count, reloads, timeouts, cleanups,
                   timeout_run>>
    /\ UNCHANGED streamerVars
    /\ UNCHANGED shot
    /\ UNCHANGED nonCaptureVars

\* if not self.load_page(): raise Exception(...); caught by
\* "except Exception", then "finally: self.cleanup()"
InitialLoadResult ==
    /\ cpc = "load"
    /\ lp_result # "none"
    /\ IF lp_result = "true"
         THEN /\ cpc' = "audio"
              /\ UNCHANGED <<cexc, cleanups>>
         ELSE /\ cpc' = "cleanup_browser"
              /\ cexc' = "LoadFailed"
              /\ cleanups' = cleanups + 1
    /\ lp_result' = "none"
    /\ UNCHANGED <<entry, max_retries, attempt, attempts_made,
                   consecutive_errors, frame_count, reloads, timeouts, browser,
                   playwright, timeout_run>>
    /\ UNCHANGED streamerVars
    /\ UNCHANGED shot
    /\ UNCHANGED nonCaptureVars

\* lines 126-146: choose the audio file, frame_count = 0,
\* consecutive_errors = 0
StartStreamLoop ==
    /\ cpc = "audio"
    /\ cpc' = "screenshot"
    /\ frame_count' = 0
    /\ consecutive_errors' = 0
    /\ UNCHANGED <<entry, max_retries, attempt, attempts_made, lp_result,
                   reloads, timeouts, browser, playwright, cexc, cleanups,
                   timeout_run>>
    /\ UNCHANGED streamerVars
    /\ UNCHANGED shot
    /\ UNCHANGED nonCaptureVars

\* screenshot succeeded: reset the counter, add the overlay, call write_frame
ScreenshotOk ==
    /\ cpc = "screenshot"
    /\ frame_count < MaxFrames
    /\ consecutive_errors' = 0
    /\ timeout_run' = 0
    /\ cpc' = "write"
    /\ wf_pc' = "check"
    /\ shot' = shot + 1
    /\ UNCHANGED <<entry, max_retries, attempt, attempts_made, lp_result,
                   frame_count, reloads, timeouts, browser, playwright, cexc,
                   cleanups>>
    /\ UNCHANGED <<proc, pipe, stdin, pending, wf_exc, written, spawned,
                   scl_pc, scl_exc>>
    /\ UNCHANGED sink
    /\ UNCHANGED nonCaptureVars

\* a threshold off by one: reload at the second timeout
ReloadNeededEarly(c) == c >= ErrorThreshold - 1

\* a threshold off by one the other way: reload at the fourth timeout
ReloadNeededLate(c) == c > ErrorThreshold

\* if consecutive_errors >= 3
ReloadNeeded(c) == c >= ErrorThreshold

\* except PlaywrightTimeoutError: count it; at three reload the page
ScreenshotTimeout ==
    /\ cpc = "screenshot"
    /\ timeouts < MaxTimeouts
    /\ timeouts' = timeouts + 1
    /\ timeout_run' = timeout_run + 1
    /\ consecutive_errors' = consecutive_errors + 1
    /\ IF ReloadNeeded(consecutive_errors + 1)
         THEN /\ cpc' = "reload"
              /\ reloads' = reloads + 1
              /\ max_retries' = DefaultMaxRetries
              /\ attempt' = 0
              /\ attempts_made' = 0
         ELSE /\ cpc' = "screenshot"
              /\ UNCHANGED <<reloads, max_retries, attempt, attempts_made>>
    /\ UNCHANGED <<entry, lp_result, frame_count, browser, playwright, cexc,
                   cleanups>>
    /\ UNCHANGED streamerVars
    /\ UNCHANGED shot
    /\ UNCHANGED nonCaptureVars

\* the screenshot raised something else: leave the loop
ScreenshotError ==
    /\ cpc = "screenshot"
    /\ cpc' = "cleanup_browser"
    /\ cexc' = "ScreenshotError"
    /\ cleanups' = cleanups + 1
    /\ UNCHANGED <<entry, max_retries, attempt, attempts_made, lp_result,
                   consecutive_errors, frame_count, reloads, timeouts, browser,
                   playwright, timeout_run>>
    /\ UNCHANGED streamerVars
    /\ UNCHANGED shot
    /\ UNCHANGED nonCaptureVars

\* if not self.load_page(): raise Exception(...); consecutive_errors = 0
ReloadResult ==
    /\ cpc = "reload"
    /\ lp_result # "none"
    /\ IF lp_result = "true"
         THEN /\ consecutive_errors' = 0
              /\ cpc' = "screenshot"
              /\ UNCHANGED <<cexc, cleanups>>
         ELSE /\ cpc' = "cleanup_browser"
              /\ cexc' = "ReloadFailed"
              /\ cleanups' = cleanups + 1
              /\ UNCHANGED consecutive_errors
    /\ lp_result' = "none"
    /\ UNCHANGED <<entry, max_retries, attempt, attempts_made, frame_count,
                   reloads, timeouts, browser, playwright, timeout_run>>
    /\ UNCHANGED streamerVars
    /\ UNCHANGED shot
    /\ UNCHANGED nonCaptureVars

\* streamer.write_frame(screenshot) came back: go on, or leave the loop
WriteFrameResult ==
    /\ cpc = "write"
    /\ wf_pc \in {"returned", "raised"}
    /\ IF wf_pc = "returned"
         THEN /\ cpc' = "pace"
              /\ UNCHANGED <<cexc, cleanups>>
         ELSE /\ cpc' = "cleanup_browser"
              /\ cexc' = wf_exc
              /\ cleanups' = cleanups + 1
    /\ wf_pc' = "idle"
    /\ wf_exc' = "none"
    /\ UNCHANGED <<entry, max_retries, attempt, attempts_made, lp_result,
                   consecutive_errors, frame_count, reloads, timeouts, browser,
                   playwright, timeout_run>>
    /\ UNCHANGED <<proc, pipe, stdin, pending, written, spawned, scl_pc, scl_exc>>
    /\ UNCHANGED shot
    /\ UNCHANGED sink
    /\ UNCHANGED nonCaptureVars

\* sleep for the rest of the frame interval; frame_count += 1
Pace ==
    /\ cpc = "pace"
    /\ frame_count' = frame_count + 1
    /\ cpc' = "screenshot"
    /\ UNCHANGED <<entry, max_retries, attempt, attempts_made, lp_result,
                   consecutive_errors, reloads, timeouts, browser, playwright,
                   cexc, cleanups, timeout_run>>
    /\ UNCHANGED streamerVars
    /\ UNCHANGED shot
    /\ UNCHANGED nonCaptureVars

\* Ctrl-C inside the try block, wherever the thread is (also inside
\* load_page or write_frame): except KeyboardInterrupt, then finally
InTry == cpc \in {"load", "audio", "screenshot", "reload", "write", "pace"}

\* an interrupt that leaves start_capture without the finally clause
InterruptNoCleanup ==
    /\ InTry
    /\ cpc' = "raised"
    /\ cexc' = "KeyboardInterrupt"
    /\ lp_result' = "none"
    /\ wf_pc' = "idle"
    /\ wf_exc' = "none"
    /\ UNCHANGED <<entry, max_retries, attempt, attempts_made,
                   consecutive_errors, frame_count, reloads, timeouts, browser,
                   playwright, cleanups, timeout_run>>
    /\ UNCHANGED <<proc, pipe, stdin, pending, written, spawned, scl_pc, scl_exc>>
    /\ UNCHANGED shot
    /\ UNCHANGED sink
    /\ UNCHANGED nonCaptureVars

Interrupt ==
    /\ InTry
    /\ cpc' = "cleanup_browser"
    /\ cexc' = "KeyboardInterrupt"
    /\ cleanups' = cleanups + 1
    /\ lp_result' = "none"
    /\ wf_pc' = "idle"
    /\ wf_exc' = "none"
    /\ UNCHANGED <<entry, max_retries, attempt, attempts_made,
                   consecutive_errors, frame_count, reloads, timeouts, browser,
                   playwright, timeout_run>>
    /\ UNCHANGED <<proc, pipe, stdin, pending, written, spawned, scl_pc, scl_exc>>
    /\ UNCHANGED shot
    /\ UNCHANGED sink
    /\ UNCHANGED nonCaptureVars

(***************************************************************************)
(* WebCapture.cleanup                                                      *)
(***************************************************************************)
CloseOutcomes == {"ok", "raises"}

\* if self.browser: try: self.browser.close() except Exception: print
CleanupBrowser(outcome) ==
    /\ cpc = "cleanup_browser"
    /\ browser' = IF browser = "open" /\ outcome = "ok" THEN "closed" ELSE browser
    /\ cpc' = "cleanup_playwright"
    /\ UNCHANGED <<entry, max_retries, attempt, attempts_made, lp_result,
                   consecutive_errors, frame_count, reloads, timeouts,
                   playwright, cexc, cleanups, timeout_run>>
    /\ UNCHANGED streamerVars
    /\ UNCHANGED shot
    /\ UNCHANGED nonCaptureVars

\* if self.playwright: try: self.playwright.stop() except Exception: print
CleanupPlaywright(outcome) ==
    /\ cpc = "cleanup_playwright"
    /\ playwright' = IF playwright = "started" /\ outcome = "ok"
                       THEN "stopped" ELSE playwright
    /\ cpc' = "returned"
    /\ UNCHANGED <<entry, max_retries, attempt, attempts_made, lp_result,
                   consecutive_errors, frame_count, reloads, timeouts, browser,
                   cexc, cleanups, timeout_run>>
    /\ UNCHANGED streamerVars
    /\ UNCHANGED shot
    /\ UNCHANGED nonCaptureVars

(***************************************************************************)
(* stream_url.py: stream_segment                                           *)
(***************************************************************************)
\* slot lengths and narration durations (seconds) the model tries: small
\* values around zero and the scenario values 300/600 and 45/340
AvailableTimes == ((0 - MaxSmall)..MaxSmall) \cup {300, 600}
Durations == (0..MaxSmall) \cup {45, 340}

\* Python's max(a, b)
Max(a, b) == IF a >= b THEN a ELSE b

\* a filler that is not floored at zero
FillerDurationNoFloor(a, d) == a - d

\* filler_duration = max(available_time - segment_duration, 0)
FillerDuration(a, d) == Max(a - d, 0)

\* total_duration = segment_duration + filler_duration
TotalDuration(d, f) == d + f

\* an exception leaves stream_segment
SegRaise(exc) ==
    /\ seg_pc' = "raised"
    /\ rl_exc' = exc

\* segment_duration = get_audio_duration(tts_audio_path, ffmpeg_path):
\* the measured duration, or ValueError when ffmpeg prints none
SegProbe(d) ==
    /\ seg_pc = "probe"
    /\ IF d \in Durations
         THEN /\ segment_duration' = d
              /\ seg_pc' = "compute"
              /\ UNCHANGED <<rl_exc, env_failed>>
         ELSE /\ SegRaise("ValueError")
              /\ env_failed' = TRUE
              /\ UNCHANGED segment_duration
    /\ UNCHANGED <<cfgVars, rl_pc, cycle, taskVars, tts_audio_path, files,
                   lbrowser, news_for, gen_failed, linterrupted>>
    /\ UNCHANGED <<available_time, filler_duration, total_duration, enc_t,
                   seg_proc, cap_pc, cancel_requested, seg_result, segments_done>>
    /\ UNCHANGED streamed
    /\ UNCHANGED cancelled
    /\ UNCHANGED overhead
    /\ UNCHANGED nonLiveVars

\* lines 44-45
SegCompute ==
    /\ seg_pc = "compute"
    /\ filler_duration' = FillerDuration(available_time, segment_duration)
    /\ total_duration' = TotalDuration(segment_duration, filler_duration')
    /\ seg_pc' = "spawn"
    /\ UNCHANGED loopVars
    /\ UNCHANGED <<available_time, segment_duration, enc_t, seg_proc, cap_pc,
                   cancel_requested, seg_result, segments_done>>
    /\ UNCHANGED nonLiveVars

\* process = subprocess.Popen(command, ...) with "-t", str(total_duration);
\* capture_task = asyncio.create_task(_capture_frames(...))
SegSpawn(outcome) ==
    /\ seg_pc = "spawn"
    /\ IF outcome = "ok"
         THEN /\ seg_proc' = "running"
              /\ enc_t' = total_duration
              /\ cap_pc' = "start"
              /\ seg_pc' = "wait"
              /\ UNCHANGED <<rl_exc, env_failed>>
         ELSE /\ SegRaise("OSError")
              /\ env_failed' = TRUE
              /\ UNCHANGED <<seg_proc, enc_t, cap_pc>>
    /\ UNCHANGED <<cfgVars, rl_pc, cycle, taskVars, tts_audio_path, files,
                   lbrowser, news_for, gen_failed, linterrupted>>
    /\ UNCHANGED <<segLocals, cancel_requested, segments_done>>
    /\ UNCHANGED streamed
    /\ UNCHANGED cancelled
    /\ UNCHANGED overhead
    /\ UNCHANGED nonLiveVars

\* the segment's ffmpeg exits: at the -t hard stop, or earlier on an error
SegEncoderExits ==
    /\ seg_proc = "running"
    /\ seg_proc' = "exited"
    /\ UNCHANGED loopVars
    /\ UNCHANGED <<seg_pc, segLocals, enc_t, cap_pc, cancel_requested,
                   segments_done>>
    /\ UNCHANGED nonLiveVars

\* the capture task runs while stream_segment is suspended in an await
MainSuspended == seg_pc \in {"wait", "await_capture"}

\* _capture_frames: while process.poll() is None (on entry and after the
\* pacing sleep); then await page.screenshot(...)
CapPoll ==
    /\ MainSuspended
    /\ ~cancel_requested
    /\ cap_pc \in {"start", "sleep"}
    /\ cap_pc' = IF seg_proc = "running" THEN "screenshot" ELSE "done"
    /\ UNCHANGED loopVars
    /\ UNCHANGED <<seg_pc, segLocals, enc_t, seg_proc, cancel_requested,
                   segments_done>>
    /\ UNCHANGED nonLiveVars

\* the screenshot is there: write and flush it (BrokenPipeError: break),
\* then await asyncio.sleep(frame_delay); or the screenshot raised
CapWrite(outcome) ==
    /\ MainSuspended
    /\ ~cancel_requested
    /\ cap_pc = "screenshot"
    /\ IF outcome = "ok"
         THEN /\ cap_pc' = IF seg_proc = "running" THEN "sleep" ELSE "done"
              /\ UNCHANGED env_failed
         ELSE /\ cap_pc' = "failed"
              /\ env_failed' = TRUE
    /\ UNCHANGED <<cfgVars, rl_pc, rl_exc, cycle, taskVars, tts_audio_path,
                   files, lbrowser, news_for, gen_failed, linterrupted>>
    /\ UNCHANGED <<seg_pc, segLocals, enc_t, seg_proc, cancel_requested,
                   segments_done>>
    /\ UNCHANGED streamed
    /\ UNCHANGED cancelled
    /\ UNCHANGED overhead
    /\ UNCHANGED nonLiveVars

\* a cancelled task gets CancelledError at the await it is suspended in;
\* _capture_frames does not catch it
CapCancelled ==
    /\ seg_pc = "await_capture"
    /\ cancel_requested
    /\ cap_pc \in {"start", "screenshot", "sleep"}
    /\ cap_pc' = "cancelled"
    /\ UNCHANGED loopVars
    /\ UNCHANGED <<seg_pc, segLocals, enc_t, seg_proc, cancel_requested,
                   segments_done>>
    /\ UNCHANGED nonLiveVars

\* await asyncio.to_thread(process.wait) returns once ffmpeg has exited.
\* The task created before the await is first in the loop's ready queue,
\* so it has run to its first await (or to its end) by then.
SegWaitDone ==
    /\ seg_pc = "wait"
    /\ seg_proc = "exited"
    /\ cap_pc # "start"
    /\ seg_pc' = "cancel"
    /\ UNCHANGED loopVars
    /\ UNCHANGED <<segLocals, enc_t, seg_proc, cap_pc, cancel_requested,
                   segments_done>>
    /\ UNCHANGED nonLiveVars

\* capture_task.cancel(); process.stdin.close()
SegCancel ==
    /\ seg_pc = "cancel"
    /\ cancel_requested' = (cap_pc \notin {"done", "failed"})
    /\ seg_pc' = "await_capture"
    /\ UNCHANGED loopVars
    /\ UNCHANGED <<segLocals, enc_t, seg_proc, cap_pc, segments_done>>
    /\ UNCHANGED nonLiveVars

\* await capture_task: returns if the task returned, raises CancelledError
\* if it was cancelled, raises the task's exception if it failed
SegAwaitCapture ==
    /\ seg_pc = "await_capture"
    /\ cap_pc \in {"done", "cancelled", "failed"}
    /\ IF cap_pc = "done"
         THEN /\ seg_pc' = "remove"
              /\ UNCHANGED rl_exc
         ELSE SegRaise(IF cap_pc = "cancelled" THEN "CancelledError"
                                               ELSE "PlaywrightError")
    /\ UNCHANGED <<cfgVars, rl_pc, cycle, taskVars, tts_audio_path, files,
                   lbrowser, news_for, flagVars>>
    /\ UNCHANGED <<segLocals, enc_t, seg_proc, cap_pc, cancel_requested,
                   segments_done>>
    /\ UNCHANGED streamed
    /\ UNCHANGED cancelled
    /\ UNCHANGED overhead
    /\ UNCHANGED nonLiveVars

\* if os.path.exists(tts_audio_path): os.remove(...); return total_duration
SegRemove ==
    /\ seg_pc = "remove"
    /\ files' = files \ {tts_audio_path}
    /\ seg_result' = total_duration
    /\ segments_done' = segments_done + 1
    /\ seg_pc' = "returned"
    /\ UNCHANGED <<cfgVars, rl_pc, rl_exc, cycle, taskVars, tts_audio_path,
                   lbrowser, news_for, flagVars>>
    /\ UNCHANGED <<available_time, segment_duration, filler_duration,
                   total_duration, enc_t, seg_proc, cap_pc, cancel_requested>>
    /\ UNCHANGED streamed
    /\ UNCHANGED cancelled
    /\ UNCHANGED overhead
    /\ UNCHANGED nonLiveVars

(***************************************************************************)
(* stream_url.py: run_livestream                                           *)
(***************************************************************************)
\* what the environment provides: everything, or no YOUTUBE_STREAM_KEY, no
\* STREAM_URL, no audio/song.mp3
Configs == {"ok", "no_key", "no_url", "no_music"}

\* NEWS_INTERVAL_MINUTES values tried (any integer parses)
IntervalMinutes == {-1, 0, 5, 10}

\* lines 126-136: return when something required is missing
CheckConfig ==
    /\ rl_pc = "config"
    /\ rl_pc' = IF config = "ok" THEN "first_news" ELSE "returned"
    /\ UNCHANGED <<cfgVars, rl_exc, cycle, taskVars, tts_audio_path, files,
                   lbrowser, news_for, flagVars>>
    /\ UNCHANGED segVars
    /\ UNCHANGED streamed
    /\ UNCHANGED cancelled
    /\ UNCHANGED overhead
    /\ UNCHANGED nonLiveVars

\* first_news = generate_news_content(news_prompt): called on the event
\* loop's thread, before the try block
GenerateFirstNews(outcome) ==
    /\ rl_pc = "first_news"
    /\ IF outcome = "ok"
         THEN /\ rl_pc' = "submit_first"
              /\ news_for' = 1
              /\ UNCHANGED <<rl_exc, gen_failed>>
         ELSE /\ rl_pc' = "raised"
              /\ rl_exc' = "GenerationError"
              /\ gen_failed' = TRUE
              /\ UNCHANGED news_for
    /\ UNCHANGED <<cfgVars, cycle, taskVars, tts_audio_path, files, lbrowser,
                   linterrupted, env_failed>>
    /\ UNCHANGED segVars
    /\ UNCHANGED streamed
    /\ UNCHANGED cancelled
    /\ UNCHANGED overhead
    /\ UNCHANGED nonLiveVars

\* future = loop.run_in_executor(executor, generate_tts_audio, ...)
SubmitFirst ==
    /\ rl_pc = "submit_first"
    /\ task_state' = Append(task_state, "running")
    /\ awaits' = Append(awaits, 0)
    /\ future' = Len(task_state) + 1
    /\ rl_pc' = "launch"
    /\ UNCHANGED <<cfgVars, rl_exc, cycle, tts_audio_path, files, lbrowser,
                   news_for, flagVars>>
    /\ UNCHANGED segVars
    /\ UNCHANGED streamed
    /\ UNCHANGED cancelled
    /\ UNCHANGED overhead
    /\ UNCHANGED nonLiveVars

\* async with async_playwright(): launch, new_page, goto
LaunchBrowser(outcome) ==
    /\ rl_pc = "launch"
    /\ IF outcome = "ok"
         THEN /\ lbrowser' = "open"
              /\ rl_pc' = "await_future"
              /\ UNCHANGED <<rl_exc, env_failed>>
         ELSE /\ rl_pc' = "raised"
              /\ rl_exc' = "PlaywrightError"
              /\ env_failed' = TRUE
              /\ UNCHANGED lbrowser
    /\ UNCHANGED <<cfgVars, cycle, taskVars, tts_audio_path, files, news_for,
                   gen_failed, linterrupted>>
    /\ UNCHANGED segVars
    /\ UNCHANGED streamed
    /\ UNCHANGED cancelled
    /\ UNCHANGED overhead
    /\ UNCHANGED nonLiveVars

\* the executor's thread finishes generate_tts_audio: the file is written
\* and the path returned, or the call raised
TaskFinishes(i, outcome) ==
    /\ i \in 1..Len(task_state)
    /\ task_state[i] = "running"
    /\ \A j \in 1..(i - 1) : task_state[j] # "running"
    /\ IF outcome = "ok"
         THEN /\ task_state' = [task_state EXCEPT ![i] = "ok"]
              /\ files' = files \cup {i}
              /\ UNCHANGED gen_failed
         ELSE /\ task_state' = [task_state EXCEPT ![i] = "failed"]
              /\ gen_failed' = TRUE
              /\ UNCHANGED files
    /\ UNCHANGED <<cfgVars, rl_pc, rl_exc, cycle, awaits, future,
                   tts_audio_path, lbrowser, news_for, linterrupted, env_failed>>
    /\ UNCHANGED segVars
    /\ UNCHANGED streamed
    /\ UNCHANGED cancelled
    /\ UNCHANGED overhead
    /\ UNCHANGED nonLiveVars

\* tts_audio_path = await future: the task's result, or its exception,
\* which "except KeyboardInterrupt" does not catch
AwaitFuture ==
    /\ rl_pc = "await_future"
    /\ cycle < MaxCycles
    /\ task_state[future] # "running"
    /\ awaits' = [awaits EXCEPT ![future] = @ + 1]
    /\ cycle' = cycle + 1
    /\ IF task_state[future] = "ok"
         THEN /\ tts_audio_path' = future
              /\ rl_pc' = "next_news"
              /\ UNCHANGED rl_exc
         ELSE /\ rl_pc' = "closing"
              /\ rl_exc' = "GenerationError"
              /\ UNCHANGED tts_audio_path
    /\ UNCHANGED <<cfgVars, task_state, future, files, lbrowser, news_for,
                   flagVars>>
    /\ UNCHANGED segVars
    /\ UNCHANGED streamed
    /\ UNCHANGED cancelled
    /\ UNCHANGED overhead
    /\ UNCHANGED nonLiveVars

\* next_news = generate_news_content(news_prompt): called on the event
\* loop's thread, inside the try block
GenerateNextNews(outcome) ==
    /\ rl_pc = "next_news"
    /\ IF outcome = "ok"
         THEN /\ rl_pc' = "submit_next"
              /\ news_for' = Len(task_state) + 1
              /\ UNCHANGED <<rl_exc, gen_failed>>
         ELSE /\ rl_pc' = "closing"
              /\ rl_exc' = "GenerationError"
              /\ gen_failed' = TRUE
              /\ UNCHANGED news_for
    /\ UNCHANGED <<cfgVars, cycle, taskVars, tts_audio_path, files, lbrowser,
                   linterrupted, env_failed>>
    /\ UNCHANGED segVars
    /\ UNCHANGED streamed
    /\ UNCHANGED cancelled
    /\ UNCHANGED overhead
    /\ UNCHANGED nonLiveVars

\* the loop keeps awaiting the task it awaited before
SubmitNextKeepsFuture ==
    /\ rl_pc = "submit_next"
    /\ task_state' = Append(task_state, "running")
    /\ awaits' = Append(awaits, 0)
    /\ rl_pc' = "segment"
    /\ seg_pc' = "probe"
    /\ available_time' = interval_seconds
    /\ streamed' = Append(streamed, tts_audio_path)
    /\ UNCHANGED <<cfgVars, rl_exc, cycle, future, tts_audio_path, files,
                   lbrowser, news_for, flagVars>>
    /\ UNCHANGED <<segment_duration, filler_duration, total_duration, enc_t,
                   seg_proc, cap_pc, cancel_requested, seg_result, segments_done>>
    /\ UNCHANGED cancelled
    /\ UNCHANGED overhead
    /\ UNCHANGED nonLiveVars

\* future = loop.run_in_executor(...); await stream_segment(...,
\* available_time=interval_seconds, ...)
SubmitNext ==
    /\ rl_pc = "submit_next"
    /\ task_state' = Append(task_state, "running")
    /\ awaits' = Append(awaits, 0)
    /\ future' = Len(task_state) + 1
    /\ rl_pc' = "segment"
    /\ seg_pc' = "probe"
    /\ available_time' = interval_seconds
    /\ streamed' = Append(streamed, tts_audio_path)
    /\ UNCHANGED <<cfgVars, rl_exc, cycle, tts_audio_path, files, lbrowser,
                   news_for, flagVars>>
    /\ UNCHANGED <<segment_duration, filler_duration, total_duration, enc_t,
                   seg_proc, cap_pc, cancel_requested, seg_result, segments_done>>
    /\ UNCHANGED cancelled
    /\ UNCHANGED overhead
    /\ UNCHANGED nonLiveVars

\* stream_segment returned: its locals are gone, the loop goes round
SegmentReturned ==
    /\ rl_pc = "segment"
    /\ seg_pc = "returned"
    /\ rl_pc' = "await_future"
    /\ seg_pc' = "idle"
    /\ available_time' = 0
    /\ segment_duration' = 0
    /\ filler_duration' = 0
    /\ total_duration' = 0
    /\ enc_t' = -1
    /\ seg_result' = -1
    /\ seg_proc' = "none"
    /\ cap_pc' = "none"
    /\ UNCHANGED <<cfgVars, rl_exc, cycle, taskVars, tts_audio_path, files,
                   lbrowser, news_for, flagVars>>
    /\ UNCHANGED <<cancel_requested, segments_done>>
    /\ UNCHANGED streamed
    /\ UNCHANGED cancelled
    /\ overhead' = 0
    /\ UNCHANGED nonLiveVars

\* stream_segment raised: nothing catches it, the finally clause runs
SegmentRaised ==
    /\ rl_pc = "segment"
    /\ seg_pc = "raised"
    /\ rl_pc' = "closing"
    /\ UNCHANGED <<cfgVars, rl_exc, cycle, taskVars, tts_audio_path, files,
                   lbrowser, news_for, flagVars>>
    /\ UNCHANGED segVars
    /\ UNCHANGED streamed
    /\ UNCHANGED cancelled
    /\ UNCHANGED overhead
    /\ UNCHANGED nonLiveVars

\* Ctrl-C while generate_news_content runs inside the try block:
\* except KeyboardInterrupt logs it, the finally clause runs
InterruptInTry ==
    /\ rl_pc = "next_news"
    /\ ~linterrupted
    /\ linterrupted' = TRUE
    /\ rl_pc' = "closing"
    /\ UNCHANGED <<cfgVars, rl_exc, cycle, taskVars, tts_audio_path, files,
                   lbrowser, news_for, gen_failed, env_failed>>
    /\ UNCHANGED segVars
    /\ UNCHANGED streamed
    /\ UNCHANGED cancelled
    /\ UNCHANGED overhead
    /\ UNCHANGED nonLiveVars

\* run_livestream, or the stream_segment it awaits, is suspended
AtAwait ==
    IF rl_pc = "segment" THEN seg_pc \in {"wait", "await_capture"}
                         ELSE rl_pc = "await_future"

\* Ctrl-C while the coroutine is suspended in an await: the main task is
\* cancelled, which cancels the future it awaits (the executor's thread
\* runs on); CancelledError passes "except KeyboardInterrupt", the finally
\* clause runs
InterruptInAwait ==
    /\ AtAwait
    /\ ~linterrupted
    /\ linterrupted' = TRUE
    /\ rl_pc' = "closing"
    /\ rl_exc' = "CancelledError"
    /\ seg_pc' = IF rl_pc = "segment" THEN "raised" ELSE seg_pc
    /\ cancelled' = IF rl_pc = "await_future" /\ task_state[future] = "running"
                       THEN cancelled \cup {future} ELSE cancelled
    /\ UNCHANGED <<cfgVars, cycle, taskVars, tts_audio_path, files, lbrowser,
                   news_for, gen_failed, env_failed>>
    /\ UNCHANGED <<segLocals, enc_t, seg_proc, cap_pc, cancel_requested,
                   segments_done>>
    /\ UNCHANGED streamed
    /\ UNCHANGED overhead
    /\ UNCHANGED nonLiveVars

\* time passes while run_livestream waits for the narration (await future)
\* or generates the next text (generate_news_content)
LoopTimePasses ==
    /\ rl_pc \in {"await_future", "next_news"}
    /\ overhead < MaxOverhead
    /\ overhead' = overhead + 1
    /\ UNCHANGED <<cfgVars, rl_pc, rl_exc, cycle, taskVars, tts_audio_path,
                   files, lbrowser, news_for, flagVars, streamed, cancelled>>
    /\ UNCHANGED segVars
    /\ UNCHANGED nonLiveVars

\* finally: await browser.close(); then the exception, if any, goes on
CloseBrowser ==
    /\ rl_pc = "closing"
    /\ lbrowser' = "closed"
    /\ rl_pc' = IF rl_exc = "none" THEN "returned" ELSE "raised"
    /\ UNCHANGED <<cfgVars, rl_exc, cycle, taskVars, tts_audio_path, files,
                   news_for, flagVars>>
    /\ UNCHANGED segVars
    /\ UNCHANGED streamed
    /\ UNCHANGED cancelled
    /\ UNCHANGED overhead
    /\ UNCHANGED nonLiveVars

(***************************************************************************)
(* scheduler.py: AudioScheduler.start_stream, called from several threads. *)
(* Nothing serialises the guard and the Popen that follows it.             *)
(***************************************************************************)
Callers == 1..MaxCallers

\* the processes start_stream has spawned that are still running
RunningProcs == {i \in 1..Len(sprocs) : sprocs[i] = "running"}

\* a caller enters start_stream
StartStreamCall(t) ==
    /\ st_pc[t] = "idle"
    /\ st_calls < MaxCalls
    /\ st_calls' = st_calls + 1
    /\ st_pc' = [st_pc EXCEPT ![t] = "guard"]
    /\ UNCHANGED <<ffmpeg_process, sprocs, st_skipped>>
    /\ UNCHANGED nonSchedVars

\* if self.ffmpeg_process and self.ffmpeg_process.poll() is None:
\*     logging.warning(...); return
StartStreamGuard(t) ==
    /\ st_pc[t] = "guard"
    /\ IF ffmpeg_process # 0 /\ sprocs[ffmpeg_process] = "running"
         THEN /\ st_pc' = [st_pc EXCEPT ![t] = "idle"]
              /\ st_skipped' = st_skipped + 1
         ELSE /\ st_pc' = [st_pc EXCEPT ![t] = "spawn"]
              /\ UNCHANGED st_skipped
    /\ UNCHANGED <<ffmpeg_process, sprocs, st_calls>>
    /\ UNCHANGED nonSchedVars

\* self.ffmpeg_process = subprocess.Popen(cmd, ...)
StartStreamSpawn(t) ==
    /\ st_pc[t] = "spawn"
    /\ sprocs' = Append(sprocs, "running")
    /\ ffmpeg_process' = Len(sprocs) + 1
    /\ st_pc' = [st_pc EXCEPT ![t] = "idle"]
    /\ UNCHANGED <<st_calls, st_skipped>>
    /\ UNCHANGED nonSchedVars

\* a spawned ffmpeg exits (end of the playlist, or an error)
StreamProcessExits(i) ==
    /\ i \in 1..Len(sprocs)
    /\ sprocs[i] = "running"
    /\ sprocs' = [sprocs EXCEPT ![i] = "exited"]
    /\ UNCHANGED <<st_pc, ffmpeg_process, st_calls, st_skipped>>
    /\ UNCHANGED nonSchedVars

(***************************************************************************)
(* What is logged and printed about the stream key.  Strings are sequences *)
(* of characters, so that slicing, replace() and "appears in" are what     *)
(* they are in Python.  Fixed message texts are shortened.                 *)
(***************************************************************************)
\* characters of the keys tried
KeyAlphabet == {"a", "x"}

\* a stem that makes a key pass main.py's length check
KeyStem == <<"k", "e", "y", "0", "1", "2", "3", "4", "5", "6">>

\* keys of at most MaxKeyLen characters (the empty one: variable not set)
ShortKeys == UNION {[1..n -> KeyAlphabet] : n \in 0..MaxKeyLen}

Keys == ShortKeys \cup {KeyStem \o k : k \in ShortKeys}

\* "rtmp://a.rtmp.youtube.com/live2/"
RtmpPrefix ==
    <<"r", "t", "m", "p", ":", "/", "/", "a", ".", "r", "t", "m", "p", ".",
      "y", "o", "u", "t", "u", "b", "e", ".", "c", "o", "m", "/",
      "l", "i", "v", "e", "2", "/">>

\* rtmp_url = f"rtmp://a.rtmp.youtube.com/live2/{stream_key}"
RtmpUrl(key) == RtmpPrefix \o key

\* "STREAM_KEY_HIDDEN"
Hidden ==
    <<"S", "T", "R", "E", "A", "M", "_", "K", "E", "Y", "_",
      "H", "I", "D", "D", "E", "N">>

\* the end of the joined ffmpeg command, before its last argument
CmdTail == <<"-", "f", " ", "f", "l", "v", " ">>

\* Python's s[:n]
Prefix(str, n) == SubSeq(str, 1, IF n < Len(str) THEN n ELSE Len(str))

\* Python's old in s
Contains(str, old) ==
    \E i \in 1..(Len(str) - Len(old) + 1) : SubSeq(str, i, i + Len(old) - 1) = old

\* Python's s.replace(old, new), for a non-empty old
RECURSIVE Replace(_, _, _)
Replace(str, old, new) ==
    IF Len(old) = 0 \/ Len(str) < Len(old)
      THEN str
      ELSE IF SubSeq(str, 1, Len(old)) = old
             THEN new \o Replace(SubSeq(str, Len(old) + 1, Len(str)), old, new)
             ELSE <<Head(str)>> \o Replace(Tail(str), old, new)

\* safe_command[-1] = safe_command[-1].replace(stream_key, "STREAM_KEY_HIDDEN")
\* followed by " ".join(safe_command)
MaskedCommand(key) == CmdTail \o Replace(RtmpUrl(key), key, Hidden)

\* " ".join(command) with the command as it is run
PlainCommand(key) == CmdTail \o RtmpUrl(key)

\* the line a logging call emits
Emit(line) == log' = Append(log, line)

\* main.py:53  logger.info(f"Loaded YOUTUBE_STREAM_KEY: {os.getenv(...)}")
MainLogLoaded ==
    /\ lg_entry = "main"
    /\ lg_pc = "start"
    /\ Emit(<<"K", "E", "Y", ":", " ">>
            \o (IF stream_key = <<>> THEN <<"N", "o", "n", "e">> ELSE stream_key))
    /\ lg_pc' = "check"
    /\ UNCHANGED <<lg_entry, stream_key>>
    /\ UNCHANGED nonLogVars

\* main.py:56-67  no key: error, return; a key shorter than 10: error with
\* the key, return; else info with its first 5 characters
MainCheckKey ==
    /\ lg_entry = "main"
    /\ lg_pc = "check"
    /\ IF stream_key = <<>>
         THEN /\ Emit(<<"n", "o", " ", "k", "e", "y">>)
              /\ lg_pc' = "returned"
         ELSE IF Len(stream_key) < MinKeyLen
                THEN /\ Emit(<<"i", "n", "v", "a", "l", "i", "d", ":", " ", "'">>
                             \o stream_key \o <<"'">>)
                     /\ lg_pc' = "returned"
                ELSE /\ Emit(<<"u", "s", "i", "n", "g", ":", " ">>
                             \o Prefix(stream_key, 5) \o <<".", ".", ".">>)
                     /\ lg_pc' = "url"
    /\ UNCHANGED <<lg_entry, stream_key>>
    /\ UNCHANGED nonLogVars

\* main.py:125  logger.info(f"Streaming to URL: {rtmp_url[:30]}...")
MainLogUrl ==
    /\ lg_entry = "main"
    /\ lg_pc = "url"
    /\ Emit(<<"U", "R", "L", ":", " ">>
            \o Prefix(RtmpUrl(stream_key), 30) \o <<".", ".", ".">>)
    /\ lg_pc' = "command"
    /\ UNCHANGED <<lg_entry, stream_key>>
    /\ UNCHANGED nonLogVars

\* main.py:170-173  the command is logged with the key replaced
MainLogCommand ==
    /\ lg_entry = "main"
    /\ lg_pc = "command"
    /\ Emit(MaskedCommand(stream_key))
    /\ lg_pc' = "returned"
    /\ UNCHANGED <<lg_entry, stream_key>>
    /\ UNCHANGED nonLogVars

\* streamer.py:81-83  YouTubeStreamer.start prints the command it runs
StreamerStartLog ==
    /\ lg_entry = "streamer"
    /\ lg_pc = "start"
    /\ Emit(PlainCommand(stream_key))
    /\ lg_pc' = "returned"
    /\ UNCHANGED <<lg_entry, stream_key>>
    /\ UNCHANGED nonLogVars

\* scheduler.py:39-43  AudioScheduler.__init__: no key: error, sys.exit(1)
SchedulerInitKey ==
    /\ lg_entry = "scheduler"
    /\ lg_pc = "start"
    /\ IF stream_key = <<>>
         THEN /\ Emit(<<"n", "o", " ", "k", "e", "y">>)
              /\ lg_pc' = "returned"
         ELSE /\ lg_pc' = "start_stream"
              /\ UNCHANGED log
    /\ UNCHANGED <<lg_entry, stream_key>>
    /\ UNCHANGED nonLogVars

\* scheduler.py:144  logging.info(f"Starting FFmpeg stream: {' '.join(cmd)}")
SchedulerStartLog ==
    /\ lg_entry = "scheduler"
    /\ lg_pc = "start_stream"
    /\ Emit(PlainCommand(stream_key))
    /\ lg_pc' = "returned"
    /\ UNCHANGED <<lg_entry, stream_key>>
    /\ UNCHANGED nonLogVars

\* stream_url.py:121-128  run_livestream: no key: error, return
LiveCheckKey ==
    /\ lg_entry = "run_livestream"
    /\ lg_pc = "start"
    /\ IF stream_key = <<>>
         THEN /\ Emit(<<"n", "o", " ", "k", "e", "y">>)
              /\ lg_pc' = "returned"
         ELSE /\ lg_pc' = "segment"
              /\ UNCHANGED log
    /\ UNCHANGED <<lg_entry, stream_key>>
    /\ UNCHANGED nonLogVars

\* stream_url.py:97-100  stream_segment logs the command with the key replaced
SegmentLog ==
    /\ lg_entry = "run_livestream"
    /\ lg_pc = "segment"
    /\ Emit(MaskedCommand(stream_key))
    /\ lg_pc' = "returned"
    /\ UNCHANGED <<lg_entry, stream_key>>
    /\ UNCHANGED nonLogVars

(***************************************************************************)
(* The pacing of WebCapture.start_capture's loop, for frames that are      *)
(* captured and written without error.  Time is counted in ticks, Delay    *)
(* ticks to the frame interval self.delay = 1.0 / fps.                     *)
(***************************************************************************)
\* ticks the screenshot, the overlay and write_frame can take together:
\* less than one frame interval
WorkTimes == 1..(Delay - 1)

\* time.sleep(t) returns after t, or later
Overshoots == 0..MaxOvershoot

\* lines 151-163: screenshot, overlay, write_frame; then
\* current_time = time.time()
\* sleep_time = self.delay - (current_time - last_frame_time)
PaceFrame(w) ==
    /\ pace_pc = "capture"
    /\ paced < MaxPaced
    /\ work' = w
    /\ clock' = clock + w
    /\ current_time' = clock'
    /\ sleep_time' = Delay - (current_time' - last_frame_time)
    /\ paced' = paced + 1
    /\ first_frame_at' = IF paced = 0 THEN current_time' ELSE first_frame_at
    /\ pace_pc' = "sleep"
    /\ UNCHANGED last_frame_time
    /\ UNCHANGED nonPacingVars

\* lines 164-166: if sleep_time > 0: time.sleep(sleep_time)
\* last_frame_time = current_time
PaceSleep(over) ==
    /\ pace_pc = "sleep"
    /\ IF sleep_time > 0
         THEN clock' = clock + sleep_time + over
         ELSE /\ over = 0
              /\ clock' = clock
    /\ last_frame_time' = current_time
    /\ pace_pc' = "capture"
    /\ UNCHANGED <<current_time, sleep_time, work, paced, first_frame_at>>
    /\ UNCHANGED nonPacingVars

(***************************************************************************)
(* livestream/overlay.py: StreamOverlay.get_current_text.  The text        *)
(* argument is <<>> for None and <<s>> for the string s.                   *)
(***************************************************************************)
\* the messages of a StreamOverlay built without messages
DefaultMessages ==
    <<"Welcome to the Stream!", "Don't forget to follow!",
      "Thanks for watching!", "Hope you're enjoying the stream!",
      "Feel free to ask questions in chat!">>

\* the messages arguments tried: None or [] (<<>>), and custom lists
CustomMessages == <<"msg1", "msg2", "msg3", "msg4">>

MessageArgs == {SubSeq(CustomMessages, 1, n) : n \in 0..MaxMessages}

\* the text arguments tried: None, the empty string, a banner text
Texts == {<<>>, <<"">>, <<"LIVE">>}

\* seconds that pass between two calls
TickSteps == {90, 179, 180}

\* an override that is never honoured
TruthyNever(text) == FALSE

\* if text:
Truthy(text) == text # <<>> /\ text[1] # ""

\* rotation one second early
RotationDueEarly(now, last) == now - last >= RotationInterval - 1

\* rotation only after more than the interval
RotationDueStrict(now, last) == now - last > RotationInterval

\* if current_time - self.last_update >= 180
RotationDue(now, last) == now - last >= RotationInterval

\* an index that never advances
NextIndexStay(i, n) == i

\* (self.current_index + 1) % len(self.messages)
NextIndex(i, n) == (i + 1) % n

\* get_current_text(text)
GetCurrentText(text) ==
    /\ messages # <<>>
    /\ ov_calls < MaxOverlayCalls
    /\ ov_calls' = ov_calls + 1
    /\ ov_text' = text
    /\ ov_called_at' = ov_clock
    /\ IF Truthy(text)
         THEN /\ ov_result' = text[1]
              /\ UNCHANGED <<current_index, last_update>>
         ELSE /\ IF RotationDue(ov_clock, last_update)
                   THEN /\ current_index' = NextIndex(current_index, Len(messages))
                        /\ last_update' = ov_clock
                   ELSE UNCHANGED <<current_index, last_update>>
              /\ ov_result' = messages[current_index' + 1]
    /\ UNCHANGED <<messages, ov_clock>>
    /\ UNCHANGED nonOverlayVars

\* time passes between calls
OverlayTick(d) ==
    /\ messages # <<>>
    /\ ov_clock + d <= OverlayStart + MaxElapsed
    /\ ov_clock' = ov_clock + d
    /\ UNCHANGED <<messages, current_index, last_update, ov_text, ov_result,
                   ov_calls, ov_called_at>>
    /\ UNCHANGED nonOverlayVars

(***************************************************************************)
(* Start-up of main.main (main.py) and of scheduler.py's main block        *)
(* (AudioScheduler(), start_scheduler(), start_stream()), up to the first  *)
(* external process.                                                       *)
(***************************************************************************)
KeyStates == {"missing", "short", "valid"}

\* main.py:56-80: return when the key is missing or shorter than 10
\* characters, when screenshot.png or audio/song.mp3 does not exist
MainCheckConfig ==
    /\ su_entry = "main"
    /\ su_pc = "check"
    /\ su_pc' = IF key_state = "valid" /\ has_image /\ has_music
                  THEN "generate" ELSE "returned"
    /\ UNCHANGED <<su_entry, key_state, has_image, has_music, su_job,
                   provider_calls, ext_procs>>
    /\ UNCHANGED nonStartupVars

\* main.py:90-105: generate_news_content, generate_tts_audio; an exception
\* is caught at line 224
MainGenerate(outcome) ==
    /\ su_entry = "main"
    /\ su_pc = "generate"
    /\ provider_calls' = provider_calls + 1
    /\ su_pc' = IF outcome = "ok" THEN "popen" ELSE "returned"
    /\ UNCHANGED <<su_entry, key_state, has_image, has_music, su_job, ext_procs>>
    /\ UNCHANGED nonStartupVars

\* main.py:176: process = subprocess.Popen(command, ...)
MainPopen ==
    /\ su_entry = "main"
    /\ su_pc = "popen"
    /\ ext_procs' = ext_procs + 1
    /\ su_pc' = "streaming"
    /\ UNCHANGED <<su_entry, key_state, has_image, has_music, su_job,
                   provider_calls>>
    /\ UNCHANGED nonStartupVars

\* scheduler.py:39-56: AudioScheduler.__init__ exits when the key is not
\* set; bg_music and image_file become Paths, _init_playlist writes the
\* playlist
SchedulerConstruct ==
    /\ su_entry = "scheduler"
    /\ su_pc = "construct"
    /\ su_pc' = IF key_state = "missing" THEN "exited" ELSE "constructed"
    /\ UNCHANGED <<su_entry, key_state, has_image, has_music, su_job,
                   provider_calls, ext_procs>>
    /\ UNCHANGED nonStartupVars

\* scheduler.py:87-95: start_scheduler adds generate_and_update with
\* next_run_time = now and starts the background scheduler
SchedulerStartJobs ==
    /\ su_entry = "scheduler"
    /\ su_pc = "constructed"
    /\ su_job' = "due"
    /\ su_pc' = "scheduled"
    /\ UNCHANGED <<su_entry, key_state, has_image, has_music, provider_calls,
                   ext_procs>>
    /\ UNCHANGED nonStartupVars

\* scheduler.py:77: the scheduler's thread runs generate_and_update, which
\* calls generate_news_content
SchedulerJobRuns ==
    /\ su_entry = "scheduler"
    /\ su_job = "due"
    /\ su_job' = "ran"
    /\ provider_calls' = provider_calls + 1
    /\ UNCHANGED <<su_entry, su_pc, key_state, has_image, has_music, ext_procs>>
    /\ UNCHANGED nonStartupVars

\* scheduler.py:145: start_stream's subprocess.Popen(cmd, ...)
SchedulerStartStream ==
    /\ su_entry = "scheduler"
    /\ su_pc = "scheduled"
    /\ ext_procs' = ext_procs + 1
    /\ su_pc' = "streaming"
    /\ UNCHANGED <<su_entry, key_state, has_image, has_music, su_job,
                   provider_calls>>
    /\ UNCHANGED nonStartupVars

(***************************************************************************)
(* scheduler.py: the playlist file of an AudioScheduler.  An entry is 0    *)
(* for the background music and n for the segment of the n-th              *)
(* generate_and_update run.  The background scheduler runs one instance of *)
(* the job at a time.                                                      *)
(***************************************************************************)
StepOutcomes == {"ok", "raises"}

\* the playlist file exists and _init_playlist has written it
PlaylistReady == pl_pc \notin {"idle", "init_open", "init_write"}

\* _init_playlist: open(self.playlist, 'w') creates or truncates the file
InitPlaylistOpen ==
    /\ pl_pc = "init_open"
    /\ playlist' = <<>>
    /\ pl_pc' = "init_write"
    /\ UNCHANGED <<temp_exists, temp, runs, mixed, failed, job_errors, observed>>
    /\ UNCHANGED schedVars
    /\ UNCHANGED nonPlaylistVars

\* f.write(f"file '{self.bg_music.resolve()}'\n") and the close
InitPlaylistWrite ==
    /\ pl_pc = "init_write"
    /\ playlist' = <<0>>
    /\ pl_pc' = "ready"
    /\ UNCHANGED <<temp_exists, temp, runs, mixed, failed, job_errors, observed>>
    /\ UNCHANGED schedVars
    /\ UNCHANGED nonPlaylistVars

\* the scheduler fires the interval job: generate_and_update begins
JobStart ==
    /\ pl_pc = "ready"
    /\ runs < MaxRuns
    /\ runs' = runs + 1
    /\ pl_pc' = "text"
    /\ UNCHANGED <<playlist, temp_exists, temp, mixed, failed, job_errors,
                   observed>>
    /\ UNCHANGED schedVars
    /\ UNCHANGED nonPlaylistVars

\* except Exception as e: logging.error(...); generate_and_update returns
JobFails ==
    /\ failed' = failed \cup {runs}
    /\ job_errors' = job_errors + 1
    /\ pl_pc' = "ready"

\* content = generate_news_content()
GenerateNewsContent(outcome) ==
    /\ pl_pc = "text"
    /\ IF outcome = "ok"
         THEN /\ pl_pc' = "tts"
              /\ UNCHANGED <<failed, job_errors>>
         ELSE JobFails
    /\ UNCHANGED <<playlist, temp_exists, temp, runs, mixed, observed>>
    /\ UNCHANGED schedVars
    /\ UNCHANGED nonPlaylistVars

\* generate_tts_audio(content, str(wav_path))
GenerateTtsAudio(outcome) ==
    /\ pl_pc = "tts"
    /\ IF outcome = "ok"
         THEN /\ pl_pc' = "mix"
              /\ UNCHANGED <<failed, job_errors>>
         ELSE JobFails
    /\ UNCHANGED <<playlist, temp_exists, temp, runs, mixed, observed>>
    /\ UNCHANGED schedVars
    /\ UNCHANGED nonPlaylistVars

\* a mixing failure that is logged while the run goes on to the playlist
PrepareLivestreamAudioGoesOn(outcome) ==
    /\ pl_pc = "mix"
    /\ pl_pc' = "update_open"
    /\ IF outcome = "ok"
         THEN /\ mixed' = Append(mixed, runs)
              /\ UNCHANGED <<failed, job_errors>>
         ELSE /\ failed' = failed \cup {runs}
              /\ job_errors' = job_errors + 1
              /\ UNCHANGED mixed
    /\ UNCHANGED <<playlist, temp_exists, temp, runs, observed>>
    /\ UNCHANGED schedVars
    /\ UNCHANGED nonPlaylistVars

\* prepare_livestream_audio(str(wav_path), str(self.bg_music), str(mp3_path))
PrepareLivestreamAudio(outcome) ==
    /\ pl_pc = "mix"
    /\ IF outcome = "ok"
         THEN /\ mixed' = Append(mixed, runs)
              /\ pl_pc' = "update_open"
              /\ UNCHANGED <<failed, job_errors>>
         ELSE /\ JobFails
              /\ UNCHANGED mixed
    /\ UNCHANGED <<playlist, temp_exists, temp, runs, observed>>
    /\ UNCHANGED schedVars
    /\ UNCHANGED nonPlaylistVars

\* wav_path.unlink(missing_ok=True); _update_playlist:
\* temp = self.playlist.with_suffix('.tmp'); open(temp, 'w')
UpdateOpenTemp ==
    /\ pl_pc = "update_open"
    /\ temp_exists' = TRUE
    /\ temp' = <<>>
    /\ pl_pc' = "update_copy"
    /\ UNCHANGED <<playlist, runs, mixed, failed, job_errors, observed>>
    /\ UNCHANGED schedVars
    /\ UNCHANGED nonPlaylistVars

\* an update that copies nothing of the old playlist
UpdateCopySkipped ==
    /\ pl_pc = "update_copy"
    /\ pl_pc' = "update_append"
    /\ UNCHANGED <<playlist, temp_exists, temp, runs, mixed, failed,
                   job_errors, observed>>
    /\ UNCHANGED schedVars
    /\ UNCHANGED nonPlaylistVars

\* with open(self.playlist) as src: out.write(src.read())
UpdateCopy ==
    /\ pl_pc = "update_copy"
    /\ temp' = temp \o playlist
    /\ pl_pc' = "update_append"
    /\ UNCHANGED <<playlist, temp_exists, runs, mixed, failed, job_errors,
                   observed>>
    /\ UNCHANGED schedVars
    /\ UNCHANGED nonPlaylistVars

\* out.write(f"file '{segment_file.resolve()}'\n") and the close
UpdateAppend ==
    /\ pl_pc = "update_append"
    /\ temp' = Append(temp, runs)
    /\ pl_pc' = "update_replace"
    /\ UNCHANGED <<playlist, temp_exists, runs, mixed, failed, job_errors,
                   observed>>
    /\ UNCHANGED schedVars
    /\ UNCHANGED nonPlaylistVars

\* os.replace(temp, self.playlist): the name now refers to the new file
UpdateReplace ==
    /\ pl_pc = "update_replace"
    /\ playlist' = temp
    /\ temp_exists' = FALSE
    /\ temp' = <<>>
    /\ pl_pc' = "ready"
    /\ UNCHANGED <<runs, mixed, failed, job_errors, observed>>
    /\ UNCHANGED schedVars
    /\ UNCHANGED nonPlaylistVars

\* scheduler.start_stream(), called by the main thread once the
\* AudioScheduler is constructed
MainStartStream ==
    /\ PlaylistReady
    /\ StartStreamCall(1)

\* ffmpeg's concat demuxer (or anyone else) opens and reads the playlist
ReaderReads ==
    /\ PlaylistReady
    /\ observed # playlist
    /\ observed' = playlist
    /\ UNCHANGED <<pl_pc, playlist, temp_exists, temp, runs, mixed, failed,
                   job_errors>>
    /\ UNCHANGED schedVars
    /\ UNCHANGED nonPlaylistVars

(***************************************************************************)
(* Initial states.  Each specification starts one component; the other     *)
(* two stay as constructed.                                                *)
(***************************************************************************)
StreamerInit ==
    /\ proc = "none"
    /\ pipe = "none"
    /\ stdin = "none"
    /\ pending = FALSE
    /\ wf_pc = "idle"
    /\ wf_exc = "none"
    /\ written = 0
    /\ spawned = 0
    /\ scl_pc = "idle"
    /\ scl_exc = "none"
    /\ sink = <<>>

\* a run is one start_capture(streamer) call on a fresh WebCapture, or one
\* load_page(max_retries) call on a WebCapture whose page is set up
CaptureInit ==
    /\ entry \in {"start_capture", "load_page"}
    /\ cpc = IF entry = "start_capture" THEN "setup" ELSE "direct"
    /\ max_retries \in IF entry = "start_capture"
                         THEN {DefaultMaxRetries} ELSE 0..MaxRetriesArg
    /\ browser = IF entry = "start_capture" THEN "none" ELSE "open"
    /\ playwright = IF entry = "start_capture" THEN "none" ELSE "started"
    /\ attempt = 0
    /\ attempts_made = 0
    /\ lp_result = "none"
    /\ consecutive_errors = 0
    /\ frame_count = 0
    /\ reloads = 0
    /\ timeouts = 0
    /\ cexc = "none"
    /\ cleanups = 0
    /\ timeout_run = 0
    /\ shot = 0

\* run_livestream and stream_segment not called
LiveIdle ==
    /\ lentry = "none"
    /\ config = "ok"
    /\ interval_seconds = 0
    /\ rl_pc = "idle"
    /\ rl_exc = "none"
    /\ cycle = 0
    /\ task_state = <<>>
    /\ awaits = <<>>
    /\ future = 0
    /\ tts_audio_path = 0
    /\ files = {}
    /\ lbrowser = "none"
    /\ news_for = 0
    /\ gen_failed = FALSE
    /\ linterrupted = FALSE
    /\ env_failed = FALSE
    /\ seg_pc = "idle"
    /\ available_time = 0
    /\ segment_duration = 0
    /\ filler_duration = 0
    /\ total_duration = 0
    /\ enc_t = -1
    /\ seg_proc = "none"
    /\ cap_pc = "none"
    /\ cancel_requested = FALSE
    /\ seg_result = -1
    /\ segments_done = 0
    /\ streamed = <<>>
    /\ cancelled = {}
    /\ overhead = 0

\* a run is one run_livestream() call, or one stream_segment(...) call on
\* an open page with a narration file that exists
LiveInit ==
    /\ lentry \in {"run_livestream", "stream_segment"}
    /\ config \in IF lentry = "run_livestream" THEN Configs ELSE {"ok"}
    /\ interval_seconds \in IF lentry = "run_livestream"
                              THEN {m * 60 : m \in IntervalMinutes} ELSE {0}
    /\ rl_pc = IF lentry = "run_livestream" THEN "config" ELSE "direct"
    /\ rl_exc = "none"
    /\ cycle = 0
    /\ task_state = <<>>
    /\ awaits = <<>>
    /\ future = 0
    /\ tts_audio_path = IF lentry = "run_livestream" THEN 0 ELSE 1
    /\ files = IF lentry = "run_livestream" THEN {} ELSE {1}
    /\ lbrowser = IF lentry = "run_livestream" THEN "none" ELSE "open"
    /\ news_for = 0
    /\ gen_failed = FALSE
    /\ linterrupted = FALSE
    /\ env_failed = FALSE
    /\ seg_pc = IF lentry = "run_livestream" THEN "idle" ELSE "probe"
    /\ available_time \in IF lentry = "run_livestream" THEN {0} ELSE AvailableTimes
    /\ segment_duration = 0
    /\ filler_duration = 0
    /\ total_duration = 0
    /\ enc_t = -1
    /\ seg_proc = "none"
    /\ cap_pc = "none"
    /\ cancel_requested = FALSE
    /\ seg_result = -1
    /\ segments_done = 0
    /\ streamed = IF lentry = "run_livestream" THEN <<>> ELSE <<1>>
    /\ cancelled = {}
    /\ overhead = 0

\* start_capture and load_page not called
CaptureIdle ==
    /\ entry = "none"
    /\ cpc = "idle"
    /\ max_retries = DefaultMaxRetries
    /\ browser = "none"
    /\ playwright = "none"
    /\ attempt = 0
    /\ attempts_made = 0
    /\ lp_result = "none"
    /\ consecutive_errors = 0
    /\ frame_count = 0
    /\ reloads = 0
    /\ timeouts = 0
    /\ cexc = "none"
    /\ cleanups = 0
    /\ timeout_run = 0
    /\ shot = 0

\* AudioScheduler as constructed: self.ffmpeg_process = None
SchedInit ==
    /\ st_pc = [t \in Callers |-> "idle"]
    /\ ffmpeg_process = 0
    /\ sprocs = <<>>
    /\ st_calls = 0
    /\ st_skipped = 0

\* no program has logged anything
LogIdle ==
    /\ lg_entry = "none"
    /\ lg_pc = "idle"
    /\ stream_key = <<>>
    /\ log = <<>>

\* the capture loop's clock is not observed
PacingIdle ==
    /\ pace_pc = "idle"
    /\ clock = 0
    /\ last_frame_time = 0
    /\ current_time = 0
    /\ sleep_time = 0
    /\ work = 0
    /\ paced = 0
    /\ first_frame_at = 0

\* no StreamOverlay is constructed
OverlayIdle ==
    /\ messages = <<>>
    /\ current_index = 0
    /\ last_update = 0
    /\ ov_clock = 0
    /\ ov_text = <<>>
    /\ ov_result = ""
    /\ ov_calls = 0
    /\ ov_called_at = 0

\* neither main.main nor scheduler.py's main block runs
StartupIdle ==
    /\ su_entry = "none"
    /\ su_pc = "idle"
    /\ key_state = "valid"
    /\ has_image = TRUE
    /\ has_music = TRUE
    /\ su_job = "none"
    /\ provider_calls = 0
    /\ ext_procs = 0

\* no AudioScheduler's playlist is observed
PlaylistIdle ==
    /\ pl_pc = "idle"
    /\ playlist = <<>>
    /\ temp_exists = FALSE
    /\ temp = <<>>
    /\ runs = 0
    /\ mixed = <<>>
    /\ failed = {}
    /\ job_errors = 0
    /\ observed = <<>>

ExtraIdle ==
    /\ StartupIdle
    /\ PlaylistIdle

AuxIdle ==
    /\ LogIdle
    /\ PacingIdle
    /\ OverlayIdle
    /\ ExtraIdle

(***************************************************************************)
(* Spec: the capture pipeline (WebCapture feeding a YouTubeStreamer).      *)
(***************************************************************************)
Init ==
    /\ CaptureInit
    /\ StreamerInit
    /\ LiveIdle
    /\ SchedInit
    /\ AuxIdle

Next ==
    \/ \E o \in SetupOutcomes : SetupBrowser(o)
    \/ \E o \in LoadOutcomes : LoadPageAttempt(o)
    \/ LoadPageExhausted
    \/ InitialLoadResult
    \/ StartStreamLoop
    \/ ScreenshotOk
    \/ ScreenshotTimeout
    \/ ScreenshotError
    \/ ReloadResult
    \/ WriteFrameResult
    \/ Pace
    \/ Interrupt
    \/ \E o \in CloseOutcomes : CleanupBrowser(o)
    \/ \E o \in CloseOutcomes : CleanupPlaywright(o)
    \/ \E o \in StartOutcomes : WfStartProcess(o)
    \/ WfSkipStart
    \/ WfWrite
    \/ WfReadErr
    \/ WfPoll
    \/ EncoderClosesInput
    \/ EncoderExits
    \/ SclCall
    \/ SclCloseStdin
    \/ \E o \in ReadOutcomes : SclReadStderr(o)
    \/ \E o \in {"exited", "timeout"} : SclTerminateWait(o)

Spec == Init /\ [][Next]_vars

(***************************************************************************)
(* SpecLive: run_livestream with its generation tasks, stream_segment with *)
(* its ffmpeg process and capture task.                                    *)
(***************************************************************************)
InitLive ==
    /\ LiveInit
    /\ CaptureIdle
    /\ StreamerInit
    /\ SchedInit
    /\ AuxIdle

NextLive ==
    \/ CheckConfig
    \/ \E o \in {"ok", "raises"} : GenerateFirstNews(o)
    \/ SubmitFirst
    \/ \E o \in {"ok", "raises"} : LaunchBrowser(o)
    \/ \E i \in 1..(MaxCycles + 1), o \in {"ok", "raises"} : TaskFinishes(i, o)
    \/ AwaitFuture
    \/ \E o \in {"ok", "raises"} : GenerateNextNews(o)
    \/ SubmitNext
    \/ SegmentReturned
    \/ SegmentRaised
    \/ InterruptInTry
    \/ InterruptInAwait
    \/ CloseBrowser
    \/ LoopTimePasses
    \/ \E d \in Durations \cup {-1} : SegProbe(d)
    \/ SegCompute
    \/ \E o \in {"ok", "raises"} : SegSpawn(o)
    \/ SegEncoderExits
    \/ CapPoll
    \/ \E o \in {"ok", "raises"} : CapWrite(o)
    \/ CapCancelled
    \/ SegWaitDone
    \/ SegCancel
    \/ SegAwaitCapture
    \/ SegRemove

SpecLive == InitLive /\ [][NextLive]_vars

(***************************************************************************)
(* SpecScheduler: callers of AudioScheduler.start_stream.                  *)
(***************************************************************************)
InitScheduler ==
    /\ SchedInit
    /\ CaptureIdle
    /\ StreamerInit
    /\ LiveIdle
    /\ AuxIdle

NextScheduler ==
    \/ \E t \in Callers : StartStreamCall(t)
    \/ \E t \in Callers : StartStreamGuard(t)
    \/ \E t \in Callers : StartStreamSpawn(t)
    \/ \E i \in 1..MaxCalls : StreamProcessExits(i)

SpecScheduler == InitScheduler /\ [][NextScheduler]_vars

(***************************************************************************)
(* Claims about the capture pipeline (specification Spec).                 *)
(***************************************************************************)

\* C2: in the capture loop a reload (one load_page call) happens exactly at
\* every third screenshot timeout of a run of timeouts that no successful
\* screenshot interrupts, one reload each time; a successful screenshot, and
\* a successful reload, leave consecutive_errors at 0.
C2_ThreeTimeoutsOneReload ==
    /\ [](cpc \in {"write", "pace"} => consecutive_errors = 0)
    /\ [][/\ (timeouts' = timeouts + 1 /\ timeout_run' % 3 = 0)
               => (reloads' = reloads + 1 /\ cpc' = "reload")
          /\ reloads' # reloads
               => /\ reloads' = reloads + 1
                  /\ timeouts' = timeouts + 1
                  /\ timeout_run' % 3 = 0
          /\ (cpc = "screenshot" /\ cpc' = "write") => consecutive_errors' = 0
          /\ (cpc = "reload" /\ cpc' = "screenshot") => consecutive_errors' = 0
         ]_vars

\* C2 witness: three timeouts in a row, one reload, then a good screenshot
\* whose frame went through, the counter back at 0.
C2_Witness ==
    /\ timeouts = 3
    /\ reloads = 1
    /\ cpc = "pace"
    /\ consecutive_errors = 0

\* C3: load_page makes at most max_retries attempts; it returns True at the
\* first attempt that succeeds (every earlier one failed) and False only
\* after exactly max_retries failed attempts; while it runs it can always
\* take its next step; start_capture leaves for cleanup when the initial
\* load returns False and has then captured and written nothing.
C3_LoadPageBounded ==
    /\ [](/\ attempts_made <= max_retries
          /\ lp_result = "false"
               => (attempts_made = max_retries /\ attempt = max_retries)
          /\ lp_result = "true" => attempts_made = attempt + 1
          /\ InLoadPage => ENABLED (LoadPageAttempt("ok") \/ LoadPageExhausted)
          /\ cexc = "LoadFailed"
               => /\ frame_count = 0
                  /\ written = 0
                  /\ timeouts = 0
                  /\ spawned = 0
                  /\ cpc \in {"cleanup_browser", "cleanup_playwright", "returned"})
    /\ [][(cpc = "load" /\ lp_result = "false")
             => cpc' \in {"load", "cleanup_browser"}]_vars

\* C3 witness: start_capture returned after the initial load failed three
\* times.
C3_Witness ==
    /\ entry = "start_capture"
    /\ cpc = "returned"
    /\ cexc = "LoadFailed"
    /\ attempts_made = 3

\* C4 (as claimed): when start_capture has returned after a failed reload
\* or a failed write_frame, WebCapture.cleanup has run and the ffmpeg
\* process is no longer running.
C4_BothCleanedUp ==
    (cpc = "returned" /\ cexc \in {"ReloadFailed", "BrokenPipeError", "RuntimeError"})
        => (cleanups = 1 /\ proc # "running")

\* C5 (as claimed): once YouTubeStreamer.cleanup has returned, the ffmpeg
\* process is not running.
C5_NoProcessAfterCleanup ==
    scl_pc = "returned" => proc # "running"

SegComputed ==
    seg_pc \in {"spawn", "wait", "cancel", "await_capture", "remove", "returned"}

\* C1: once stream_segment has computed them, filler_duration is
\* available_time - segment_duration floored at 0 and total_duration is
\* segment_duration + filler_duration; ffmpeg is started with -t
\* total_duration and that value is returned; (600, 45) gives 555 and 600,
\* (300, 340) gives 0 and 340, available_time <= 0 gives 0 and the narration
\* duration; the computation is always followed by starting ffmpeg.
C1_SegmentArithmetic ==
    /\ [](SegComputed =>
            /\ filler_duration = IF available_time - segment_duration > 0
                                   THEN available_time - segment_duration ELSE 0
            /\ total_duration = segment_duration + filler_duration
            /\ (available_time = 600 /\ segment_duration = 45)
                 => (filler_duration = 555 /\ total_duration = 600)
            /\ (available_time = 300 /\ segment_duration = 340)
                 => (filler_duration = 0 /\ total_duration = 340)
            /\ available_time <= 0
                 => (filler_duration = 0 /\ total_duration = segment_duration)
            /\ seg_proc # "none" => enc_t = total_duration
            /\ seg_pc = "returned" => seg_result = total_duration)
    /\ [][(seg_pc = "compute" /\ seg_pc' # "compute") => seg_pc' = "spawn"]_vars

\* C1 witness: a segment whose slot was used up before it started was
\* streamed to the end, with no filler and the narration's own length.
C1_Witness ==
    /\ seg_pc = "returned"
    /\ available_time <= 0
    /\ segment_duration = 45
    /\ seg_proc = "exited"
    /\ enc_t = 45
    /\ seg_result = 45

\* C8 (as claimed): no run of run_livestream is ended by an exception of
\* narration generation.
C8_GenerationFailureSurvived ==
    rl_pc \in {"closing", "returned", "raised"} => rl_exc # "GenerationError"

\* C9 (as claimed): with everything configured, no provider failure, no
\* operator interrupt and no failure of browser, probe or Popen,
\* stream_segment never raises and run_livestream never leaves its loop.
C9_LoopNeverTerminates ==
    (/\ lentry = "run_livestream"
     /\ config = "ok"
     /\ ~gen_failed
     /\ ~linterrupted
     /\ ~env_failed)
        => (seg_pc # "raised" /\ rl_pc \notin {"closing", "returned", "raised"})

\* tasks submitted and not yet awaited
InFlight == {i \in 1..Len(task_state) : awaits[i] = 0}

\* C10 (as claimed): when run_livestream is over, every task it submitted
\* has been awaited exactly once.
C10_EveryTaskAwaitedOnce ==
    rl_pc \in {"returned", "raised"}
        => \A i \in 1..Len(task_state) : awaits[i] = 1

\* C10 (amended): at most one task is in flight; a task is submitted only
\* when none is in flight; no task is awaited twice, and every task but the
\* last one submitted has been awaited exactly once.
C10_SingleSlotPrefetch ==
    /\ [](/\ Cardinality(InFlight) <= 1
          /\ \A i \in 1..Len(task_state) : awaits[i] <= 1
          /\ \A i \in 1..(Len(task_state) - 1) : awaits[i] = 1
          /\ Len(awaits) = Len(task_state))
    /\ [][Len(task_state') > Len(task_state)
            => (InFlight = {} /\ Len(task_state') = Len(task_state) + 1)]_vars

\* C10 witness: the second cycle has awaited the second task and
\* submitted a third one, which alone is in flight.
C10_Witness ==
    /\ Len(task_state) = 3
    /\ awaits = <<1, 1, 0>>
    /\ rl_pc = "segment"

(***************************************************************************)
(* Claims about AudioScheduler (specification SpecScheduler).              *)
(***************************************************************************)
\* C7 (as claimed): at most one ffmpeg process started by start_stream is
\* running, whatever the interleaving of the start_stream calls.
C7_AtMostOneEncoder ==
    Cardinality(RunningProcs) <= 1

(***************************************************************************)
(* Further claims about run_livestream and stream_segment (SpecLive).      *)
(***************************************************************************)
\* C11 (as claimed): after the first segment, whenever the text of the next
\* narration is being generated, a segment's encoder is running (the
\* generation overlaps playback and leaves no encoder-less gap).
C11_GenerationOverlapsPlayback ==
    (rl_pc = "next_news" /\ segments_done >= 1) => seg_proc = "running"

\* C12 (as claimed): once stream_segment has finished, by return or by
\* exception, the narration file it was given no longer exists.
C12_NarrationFileRemoved ==
    seg_pc \in {"returned", "raised"} => tts_audio_path \notin files

\* C13 (as claimed): when run_livestream is over after an operator
\* interrupt, every generation task still running has been cancelled, no
\* segment encoder is still running and the browser is closed.
C13_InterruptLeavesNothingRunning ==
    (linterrupted /\ rl_pc \in {"returned", "raised"})
        => /\ \A i \in 1..Len(task_state) :
                 task_state[i] = "running" => i \in cancelled
           /\ seg_proc # "running"
           /\ lbrowser = "closed"

(***************************************************************************)
(* Further claims about the capture pipeline (specification Spec).         *)
(***************************************************************************)
\* C14 (as claimed): YouTubeStreamer.cleanup, called with a process handle,
\* returns only from its last step, terminate() and wait(): no earlier step
\* that raises ends it.
C14_TeardownRunsAll ==
    [][(scl_pc # "returned" /\ scl_pc' = "returned" /\ proc # "none")
          => scl_pc = "terminate"]_vars

(***************************************************************************)
(* SpecOrdering: a run is either the capture pipeline or the segment       *)
(* scheduler; the ordering claim speaks about both.                        *)
(***************************************************************************)
InitOrdering == Init \/ InitLive

NextOrdering == Next \/ NextLive

SpecOrdering == InitOrdering /\ [][NextOrdering]_vars

\* C20: the streamer receives the screenshots in the order of their
\* capture, each once, and screenshot k+1 is taken only after screenshot k
\* was flushed; stream_segment is handed the narration files in the order
\* their generation was requested, each once, and each one finished.
C20_NoReordering ==
    /\ [](/\ \A i \in 1..Len(sink) : sink[i] = i
          /\ shot \in {Len(sink), Len(sink) + 1}
          /\ \A i \in 1..Len(streamed) : streamed[i] = i)
    /\ [][/\ shot' # shot => (shot' = shot + 1 /\ Len(sink) = shot)
          /\ Len(streamed') > Len(streamed)
               => /\ streamed' = Append(streamed, Len(streamed) + 1)
                  /\ task_state[Len(streamed) + 1] = "ok"
         ]_vars

\* C20 witness: the first narration was streamed to its end and the second
\* one, requested second, is being streamed.
C20_Witness ==
    /\ streamed = <<1, 2>>
    /\ segments_done = 1
    /\ seg_proc = "running"

(***************************************************************************)
(* SpecLogging: one program runs with one stream key and logs.             *)
(***************************************************************************)
LogEntries == {"main", "streamer", "scheduler", "run_livestream"}

LogInit ==
    /\ lg_entry \in LogEntries
    /\ lg_pc = "start"
    /\ stream_key \in Keys
    /\ log = <<>>

InitLogging ==
    /\ LogInit
    /\ CaptureIdle
    /\ StreamerInit
    /\ LiveIdle
    /\ SchedInit
    /\ PacingIdle
    /\ OverlayIdle
    /\ ExtraIdle

NextLogging ==
    \/ MainLogLoaded
    \/ MainCheckKey
    \/ MainLogUrl
    \/ MainLogCommand
    \/ StreamerStartLog
    \/ SchedulerInitKey
    \/ SchedulerStartLog
    \/ LiveCheckKey
    \/ SegmentLog

SpecLogging == InitLogging /\ [][NextLogging]_vars

\* C15 (as claimed): no line that is logged or printed contains the stream
\* key.
C15_KeyNeverLogged ==
    stream_key # <<>> => \A i \in 1..Len(log) : ~Contains(log[i], stream_key)

(***************************************************************************)
(* SpecPacing: the capture loop writes frames, each taking less than one   *)
(* frame interval of work.                                                 *)
(***************************************************************************)
\* line 144: last_frame_time = time.time(), taken as tick 0
PacingInit ==
    /\ pace_pc = "capture"
    /\ clock = 0
    /\ last_frame_time = 0
    /\ current_time = 0
    /\ sleep_time = 0
    /\ work = 0
    /\ paced = 0
    /\ first_frame_at = 0

InitPacing ==
    /\ PacingInit
    /\ CaptureIdle
    /\ StreamerInit
    /\ LiveIdle
    /\ SchedInit
    /\ LogIdle
    /\ OverlayIdle
    /\ ExtraIdle

NextPacing ==
    \/ \E w \in WorkTimes : PaceFrame(w)
    \/ \E over \in Overshoots : PaceSleep(over)

SpecPacing == InitPacing /\ [][NextPacing]_vars

\* distance of a and b
Dist(a, b) == IF a >= b THEN a - b ELSE b - a

\* C16 (as claimed): counted from the first frame, the k-th frame is
\* written within one frame interval of its ideal time, (k - 1) intervals
\* after the first.
C16_NoDrift ==
    paced >= 1 =>
        Dist(current_time - first_frame_at, (paced - 1) * Delay) <= Delay

(***************************************************************************)
(* SpecOverlay: a StreamOverlay is constructed, then get_current_text is   *)
(* called while time passes.                                               *)
(***************************************************************************)
\* StreamOverlay.__init__: last_update = 0, current_index = 0,
\* messages = messages or [the five defaults]
OverlayInit ==
    /\ messages \in {IF a = <<>> THEN DefaultMessages ELSE a : a \in MessageArgs}
    /\ current_index = 0
    /\ last_update = 0
    /\ ov_clock = OverlayStart
    /\ ov_text = <<>>
    /\ ov_result = ""
    /\ ov_calls = 0
    /\ ov_called_at = 0

InitOverlay ==
    /\ OverlayInit
    /\ CaptureIdle
    /\ StreamerInit
    /\ LiveIdle
    /\ SchedInit
    /\ LogIdle
    /\ PacingIdle
    /\ ExtraIdle

NextOverlay ==
    \/ \E text \in Texts : GetCurrentText(text)
    \/ \E d \in TickSteps : OverlayTick(d)

SpecOverlay == InitOverlay /\ [][NextOverlay]_vars

\* a step that is a get_current_text call
IsCall == ov_calls' = ov_calls + 1

\* C17 (as claimed): a call with a text argument that is not None returns
\* that text and changes neither current_index nor last_update.
C17_OverrideVerbatim ==
    [][(IsCall /\ ov_text' # <<>>)
          => /\ ov_result' = ov_text'[1]
             /\ current_index' = current_index
             /\ last_update' = last_update]_vars

\* C17 (amended): a call with a non-empty text returns that text and
\* changes neither current_index nor last_update, whatever the time since
\* the last rotation; the empty string is treated like no argument.
C17_NonEmptyOverrideVerbatim ==
    [][/\ (IsCall /\ ov_text' # <<>> /\ ov_text'[1] # "")
            => /\ ov_result' = ov_text'[1]
               /\ current_index' = current_index
               /\ last_update' = last_update
       /\ (IsCall /\ ov_text' = <<"">>)
            => ov_result' = messages[current_index' + 1]
      ]_vars

\* C17 witness: the override was returned by a call made more than 180 s
\* after the last rotation.
C17_Witness ==
    /\ ov_text = <<"LIVE">>
    /\ ov_result = "LIVE"
    /\ last_update > 0
    /\ ov_called_at - last_update >= RotationInterval

\* C18: a call without text, made 180 s or more after last_update, moves
\* current_index to (current_index + 1) mod len(messages) and sets
\* last_update to the time of the call; an earlier call changes neither;
\* the call returns the message at the index it leaves, which stays inside
\* the list.
C18_RotationStep ==
    /\ [](messages # <<>> => current_index \in 0..(Len(messages) - 1))
    /\ [][(IsCall /\ ov_text' = <<>>)
            => /\ ov_clock - last_update >= 180
                    => /\ current_index' = (current_index + 1) % Len(messages)
                       /\ last_update' = ov_clock
               /\ ov_clock - last_update < 180
                    => /\ current_index' = current_index
                       /\ last_update' = last_update
               /\ ov_result' = messages[current_index' + 1]
         ]_vars

\* C18 witness: a list of two messages has rotated twice, back to its first
\* message, by a call made 360 s after the previous rotation.
C18_Witness ==
    /\ Len(messages) = 2
    /\ current_index = 0
    /\ ov_text = <<>>
    /\ ov_result = messages[1]
    /\ ov_called_at = last_update
    /\ last_update = OverlayStart + 360

\* C19: a call without text made less than 180 s after last_update changes
\* neither current_index nor last_update and returns the message at
\* current_index, the same one as the call before it if that was a call
\* without text too.
C19_IdempotentWithinInterval ==
    [][(IsCall /\ ov_text' = <<>> /\ ov_clock - last_update < 180)
          => /\ current_index' = current_index
             /\ last_update' = last_update
             /\ ov_result' = messages[current_index + 1]
             /\ (ov_calls > 0 /\ ov_text = <<>>) => ov_result' = ov_result
      ]_vars

\* C19 witness: two calls without text in a row, the second one 179 s after
\* the rotation, returned the same message.
C19_Witness ==
    /\ ov_calls = 2
    /\ ov_text = <<>>
    /\ ov_called_at - last_update = 179
    /\ ov_result = messages[current_index + 1]

(***************************************************************************)
(* Claims about the slot handed to stream_segment (SpecLive).              *)
(***************************************************************************)

\* C21: for a non-negative interval, the available_time of the segment that
\* run_livestream is streaming equals max(interval_seconds - overhead, 0),
\* where overhead is the time the cycle spent waiting for the narration and
\* generating the next text before the segment started.
C21_AvailableTimeNetOfOverhead ==
    (lentry = "run_livestream" /\ rl_pc = "segment" /\ interval_seconds >= 0)
        => available_time = Max(interval_seconds - overhead, 0)

(***************************************************************************)
(* SpecStartup: one of run_livestream, main.main and scheduler.py's main   *)
(* block starts in some environment.                                       *)
(***************************************************************************)
StartupInit ==
    /\ su_entry \in {"main", "scheduler"}
    /\ su_pc = IF su_entry = "main" THEN "check" ELSE "construct"
    /\ key_state \in KeyStates
    /\ has_image \in BOOLEAN
    /\ has_music \in BOOLEAN
    /\ su_job = "none"
    /\ provider_calls = 0
    /\ ext_procs = 0

InitStartup ==
    \/ InitLive
    \/ /\ StartupInit
       /\ PlaylistIdle
       /\ CaptureIdle
       /\ StreamerInit
       /\ LiveIdle
       /\ SchedInit
       /\ LogIdle
       /\ PacingIdle
       /\ OverlayIdle

NextStartup ==
    \/ NextLive
    \/ MainCheckConfig
    \/ \E o \in {"ok", "raises"} : MainGenerate(o)
    \/ MainPopen
    \/ SchedulerConstruct
    \/ SchedulerStartJobs
    \/ SchedulerJobRuns
    \/ SchedulerStartStream

SpecStartup == InitStartup /\ [][NextStartup]_vars

\* C22: when the stream key is missing or a required input path (background
\* music, static image) does not exist, run_livestream, main.main and the
\* AudioScheduler program start no external process (encoder, browser) and
\* call no narration provider.
C22_ConfigErrorsFailFast ==
    /\ (lentry = "run_livestream" /\ config \in {"no_key", "no_music"})
          => /\ task_state = <<>>
             /\ news_for = 0
             /\ ~gen_failed
             /\ lbrowser = "none"
             /\ seg_proc = "none"
    /\ (su_entry \in {"main", "scheduler"}
           /\ (key_state = "missing" \/ ~has_image \/ ~has_music))
          => /\ provider_calls = 0
             /\ ext_procs = 0

(***************************************************************************)
(* Further claims about the capture loop (specification Spec).             *)
(***************************************************************************)

\* C23: a screenshot timeout hands no frame to the streamer; the first and
\* the second timeout after a successful screenshot cause no reload and no
\* exit from the capture loop, and a successful screenshot that follows them
\* goes on to write its frame with the error counter back at 0.
C23_TransientTimeoutsAbsorbed ==
    [][/\ timeouts' = timeouts + 1
            => /\ written' = written
               /\ sink' = sink
               /\ shot' = shot
               /\ wf_pc' = wf_pc
               /\ timeout_run' \in {1, 2}
                    => /\ cpc' = "screenshot"
                       /\ reloads' = reloads
                       /\ cexc' = cexc
                       /\ cleanups' = cleanups
       /\ (shot' = shot + 1 /\ timeout_run \in {1, 2})
            => /\ cpc' = "write"
               /\ reloads' = reloads
               /\ consecutive_errors' = 0
               /\ cexc' = "none"
      ]_vars

\* C23 witness: two timeouts, then the first screenshot, whose frame was
\* written; no reload, the loop goes on.
C23_Witness ==
    /\ timeouts = 2
    /\ shot = 1
    /\ written = 1
    /\ reloads = 0
    /\ cpc = "pace"
    /\ cexc = "none"

\* C26: consecutive_errors lies in 0..2 whenever a loop iteration starts,
\* is 0 whenever a frame is being handed to the streamer, and is 3 only
\* while the page is reloaded or after the loop was left.
C26_ErrorCounterRange ==
    entry = "start_capture"
        => /\ consecutive_errors \in 0..ErrorThreshold
           /\ cpc = "screenshot" => consecutive_errors \in 0..(ErrorThreshold - 1)
           /\ (cpc = "write" \/ wf_pc # "idle") => consecutive_errors = 0
           /\ consecutive_errors = ErrorThreshold
                => cpc \in {"reload", "cleanup_browser", "cleanup_playwright",
                            "returned"}

\* C26 witness: three timeouts and a successful reload, two more timeouts,
\* then a frame is handed to the streamer with the counter at 0.
C26_Witness ==
    /\ cpc = "write"
    /\ wf_pc = "check"
    /\ reloads = 1
    /\ timeouts = 5
    /\ consecutive_errors = 0

\* C29: once setup_browser has succeeded, start_capture has called
\* WebCapture.cleanup exactly once when it returns, never more than once,
\* and it ends by raising only when setup_browser itself failed: load
\* failures, streamer failures and the operator's interrupt end in a normal
\* return after cleanup.
C29_CleanupOnceNoPropagation ==
    entry = "start_capture"
        => /\ cleanups <= 1
           /\ cpc \in {"cleanup_browser", "cleanup_playwright", "returned"}
                => (cleanups = 1 /\ cexc # "none")
           /\ cpc \in {"setup", "load", "audio", "screenshot", "reload",
                       "write", "pace"} => cleanups = 0
           /\ cpc = "raised" => (cexc = "SetupError" /\ browser = "none"
                                 /\ cleanups = 0)

\* C29 witness: the streamer failed while the loop was writing its second
\* frame; start_capture cleaned up once and returned.
C29_Witness ==
    /\ cpc = "returned"
    /\ cexc \in {"BrokenPipeError", "RuntimeError"}
    /\ frame_count = 1
    /\ cleanups = 1
    /\ browser = "closed"

\* a step of YouTubeStreamer.cleanup is possible
CleanupCanStep ==
    \/ ENABLED SclCloseStdin
    \/ \E o \in ReadOutcomes : ENABLED SclReadStderr(o)
    \/ \E o \in {"exited", "timeout"} : ENABLED SclTerminateWait(o)

\* C24: YouTubeStreamer.cleanup, once called, can always take its next step
\* whatever the encoder does (so it ends after a bounded number of its own
\* steps), and after closing the input pipe it waits only for a bounded
\* period before it force-terminates: it is never blocked while the encoder
\* is still running.
C24_CleanupNeverBlocked ==
    scl_pc \in {"close_stdin", "read_stderr", "terminate"} => CleanupCanStep

(***************************************************************************)
(* Further claims about StreamOverlay (specification SpecOverlay).         *)
(***************************************************************************)

\* C27: messages is never empty and current_index stays in
\* 0..len(messages)-1; as long as last_update is 0 the index is 0, and the
\* first call without an override moves it to 1 mod len(messages), returns
\* that message and sets last_update; in a list of more than one message,
\* messages[0] is returned only after the index has gone round the list.
C27_FirstCallRotates ==
    /\ [](/\ Len(messages) >= 1
          /\ current_index \in 0..(Len(messages) - 1)
          /\ last_update = 0 => current_index = 0
          /\ (ov_calls > 0 /\ ov_text \in {<<>>, <<"">>} /\ Len(messages) > 1
                 /\ ov_result = messages[1])
               => last_update >= OverlayStart
                                  + (Len(messages) - 1) * RotationInterval)
    /\ [][(IsCall /\ ov_text' \in {<<>>, <<"">>} /\ last_update = 0)
             => /\ current_index' = 1 % Len(messages)
                /\ ov_result' = messages[(1 % Len(messages)) + 1]
                /\ last_update' = ov_clock]_vars

\* C27 witness: the first call on an overlay with the default messages
\* returned the second of them.
C27_Witness ==
    /\ ov_calls = 1
    /\ ov_text = <<>>
    /\ messages = DefaultMessages
    /\ current_index = 1
    /\ ov_result = "Don't forget to follow!"
    /\ last_update = ov_called_at

(***************************************************************************)
(* SpecStreamer: a caller makes write_frame calls on a fresh               *)
(* YouTubeStreamer, going on after a call has raised.                      *)
(***************************************************************************)
WriterInit ==
    /\ entry = "write_frame"
    /\ cpc = "caller"
    /\ max_retries = DefaultMaxRetries
    /\ browser = "none"
    /\ playwright = "none"
    /\ attempt = 0
    /\ attempts_made = 0
    /\ lp_result = "none"
    /\ consecutive_errors = 0
    /\ frame_count = 0
    /\ reloads = 0
    /\ timeouts = 0
    /\ cexc = "none"
    /\ cleanups = 0
    /\ timeout_run = 0
    /\ shot = 0

InitStreamer ==
    /\ WriterInit
    /\ StreamerInit
    /\ LiveIdle
    /\ SchedInit
    /\ AuxIdle

NextStreamer ==
    \/ WfCall
    \/ \E o \in StartOutcomes : WfStartProcess(o)
    \/ WfSkipStart
    \/ WfWrite
    \/ WfReadErr
    \/ WfPoll
    \/ EncoderClosesInput
    \/ EncoderExits

SpecStreamer == InitStreamer /\ [][NextStreamer]_vars

\* C28: write_frame starts an encoder exactly when self.process is None;
\* once the encoder has exited the handle stays, no write_frame spawns
\* another process, no frame is accepted any more, and no write_frame
\* returns normally.
C28_LazyStartNoRestart ==
    [][/\ spawned' # spawned
            => (spawned' = spawned + 1 /\ proc = "none" /\ wf_pc = "check")
       /\ (wf_pc = "check" /\ wf_pc' # "check")
            => ((proc = "none") <=> (spawned' = spawned + 1 \/ wf_pc' = "raised"))
       /\ proc = "exited"
            => /\ proc' = "exited"
               /\ spawned' = spawned
               /\ written' = written
               /\ sink' = sink
               /\ wf_pc' # "returned" \/ wf_pc = "returned"
      ]_vars

\* C28 witness: one frame was written, the encoder exited, and the second
\* and the third write_frame both raised; one process was ever started.
C28_Witness ==
    /\ shot = 3
    /\ written = 1
    /\ spawned = 1
    /\ proc = "exited"
    /\ wf_pc = "raised"
    /\ wf_exc = "BrokenPipeError"

(***************************************************************************)
(* SpecPlaylist: an AudioScheduler is constructed, its job runs, the       *)
(* main thread calls start_stream, the playlist is read.                   *)
(***************************************************************************)
\* AudioScheduler.__init__ is about to call _init_playlist; the playlist
\* file does not exist (<<>>) or is left over from an earlier run
PlaylistInit ==
    /\ pl_pc = "init_open"
    /\ playlist \in {<<>>, <<0, 1>>}
    /\ temp_exists = FALSE
    /\ temp = <<>>
    /\ runs = 0
    /\ mixed = <<>>
    /\ failed = {}
    /\ job_errors = 0
    /\ observed = <<>>

InitPlaylist ==
    /\ PlaylistInit
    /\ StartupIdle
    /\ SchedInit
    /\ CaptureIdle
    /\ StreamerInit
    /\ LiveIdle
    /\ LogIdle
    /\ PacingIdle
    /\ OverlayIdle

NextPlaylist ==
    \/ InitPlaylistOpen
    \/ InitPlaylistWrite
    \/ JobStart
    \/ \E o \in StepOutcomes : GenerateNewsContent(o)
    \/ \E o \in StepOutcomes : GenerateTtsAudio(o)
    \/ \E o \in StepOutcomes : PrepareLivestreamAudio(o)
    \/ UpdateOpenTemp
    \/ UpdateCopy
    \/ UpdateAppend
    \/ UpdateReplace
    \/ ReaderReads
    \/ MainStartStream
    \/ StartStreamGuard(1)
    \/ StartStreamSpawn(1)
    \/ \E i \in 1..MaxCalls : StreamProcessExits(i)

SpecPlaylist == InitPlaylist /\ [][NextPlaylist]_vars

\* the background-music entry followed by the first n mixed segments
PlaylistOf(n) == <<0>> \o SubSeq(mixed, 1, n)

C30_FailedRunIsContained ==
    /\ [](/\ \A i \in 1..Len(playlist) : ~(PlaylistReady /\ playlist[i] \in failed)
          /\ job_errors = Cardinality(failed)
          /\ (failed # {} /\ pl_pc = "ready" /\ runs < MaxRuns) => ENABLED JobStart)
    /\ [][job_errors' # job_errors
             => /\ job_errors' = job_errors + 1
                /\ pl_pc' = "ready"
                /\ playlist' = playlist
                /\ temp_exists' = temp_exists
                /\ sprocs' = sprocs
                /\ ffmpeg_process' = ffmpeg_process]_vars

\* C30 witness: the first run failed while ffmpeg was streaming; ffmpeg is
\* still running and the second run has added its segment.
C30_Witness ==
    /\ failed = {1}
    /\ job_errors = 1
    /\ playlist = <<0, 2>>
    /\ ffmpeg_process = 1
    /\ sprocs = <<"running">>

====
